---- MODULE Spec2Model ----
(***************************************************************************)
(* codex-transcript-viewer: the JSONL reader (parser.parse_jsonl), the     *)
(* event extractor (parser.extract_conversation) and the renderer          *)
(* dispatch (html_builder.build_html), with the timestamp formatters and   *)
(* the escaping they rely on.                                              *)
(*                                                                         *)
(* Text is a sequence of one-character strings, so that slicing, stripping *)
(* and escaping act on characters as the code does.  Markup that the code  *)
(* writes itself (the literal parts of its f-strings) is kept as whole     *)
(* multi-character strings, so the elements of an output fragment that     *)
(* have one character are exactly the characters that came from the log    *)
(* or from a number the code formatted.                                    *)
(***************************************************************************)
EXTENDS Integers, Sequences, FiniteSets, TLC

VARIABLES pc, err, lines, entries, idx, meta, events, hdr,
          sidebar_items, message_blocks, msg_idx, html, pos

vars == <<pc, err, lines, entries, idx, meta, events, hdr,
          sidebar_items, message_blocks, msg_idx, html, pos>>

(***************************************************************************)
(* Bounds                                                                  *)
(***************************************************************************)
MaxLines == 2
MaxEntries == 2

(***************************************************************************)
(* JSON values as json.loads builds them.  A dict is a sequence of         *)
(* key/value pairs in insertion order; None is JNull.                      *)
(***************************************************************************)
JNull == [t |-> "null"]
JBool(b) == [t |-> "bool", b |-> b]
JNum(n) == [t |-> "num", n |-> n]
JFloat(lex) == [t |-> "float", lex |-> lex]
JStr(s) == [t |-> "str", s |-> s]
JList(items) == [t |-> "list", items |-> items]
JObj(items) == [t |-> "obj", items |-> items]

EmptyStr == JStr(<<>>)
EmptyList == JList(<<>>)
EmptyObj == JObj(<<>>)

HasKey(o, k) == \E i \in 1..Len(o.items) : o.items[i].k = k

Lookup(o, k) ==
    o.items[CHOOSE i \in 1..Len(o.items) : o.items[i].k = k].v

\* dict.get(k, d) on a value that is a dict
get(o, k, d) == IF HasKey(o, k) THEN Lookup(o, k) ELSE d

\* d[k] = v : a key already present keeps its place and takes the new value
DictSet(items, k, v) ==
    IF \E i \in 1..Len(items) : items[i].k = k
    THEN [i \in 1..Len(items) |->
            IF items[i].k = k THEN [k |-> k, v |-> v] ELSE items[i]]
    ELSE Append(items, [k |-> k, v |-> v])

\* bool(x)
Truthy(v) ==
    CASE v.t = "null" -> FALSE
      [] v.t = "bool" -> v.b
      [] v.t = "num" -> v.n # 0
      [] v.t = "float" -> TRUE
      [] v.t = "str" -> v.s # <<>>
      [] v.t = "list" -> v.items # <<>>
      [] v.t = "obj" -> v.items # <<>>

(***************************************************************************)
(* json.loads on a text.  Not modelled: \uXXXX escapes and the \b, \f      *)
(* escapes inside strings (no input of the model holds one).               *)
(***************************************************************************)
Ws == {" ", "\t", "\n", "\r"}
Digits == {"0", "1", "2", "3", "4", "5", "6", "7", "8", "9"}

Lit ==
    [null |-> <<"n", "u", "l", "l">>,
     true |-> <<"t", "r", "u", "e">>,
     false |-> <<"f", "a", "l", "s", "e">>,
     NaN |-> <<"N", "a", "N">>,
     Infinity |-> <<"I", "n", "f", "i", "n", "i", "t", "y">>,
     session_meta |->
         <<"s", "e", "s", "s", "i", "o", "n", "_", "m", "e", "t", "a">>,
     event_msg |-> <<"e", "v", "e", "n", "t", "_", "m", "s", "g">>,
     response_item |->
         <<"r", "e", "s", "p", "o", "n", "s", "e", "_", "i", "t", "e", "m">>,
     user_message |->
         <<"u", "s", "e", "r", "_", "m", "e", "s", "s", "a", "g", "e">>,
     agent_message |->
         <<"a", "g", "e", "n", "t", "_", "m", "e", "s", "s", "a", "g", "e">>,
     agent_reasoning |->
         <<"a", "g", "e", "n", "t", "_", "r", "e", "a", "s", "o", "n", "i",
         "n", "g">>,
     task_complete |->
         <<"t", "a", "s", "k", "_", "c", "o", "m", "p", "l", "e", "t", "e">>,
     task_started |->
         <<"t", "a", "s", "k", "_", "s", "t", "a", "r", "t", "e", "d">>,
     turn_aborted |->
         <<"t", "u", "r", "n", "_", "a", "b", "o", "r", "t", "e", "d">>,
     token_count |->
         <<"t", "o", "k", "e", "n", "_", "c", "o", "u", "n", "t">>,
     thread_rolled_back |->
         <<"t", "h", "r", "e", "a", "d", "_", "r", "o", "l", "l", "e", "d",
         "_", "b", "a", "c", "k">>,
     function_call |->
         <<"f", "u", "n", "c", "t", "i", "o", "n", "_", "c", "a", "l", "l">>,
     function_call_output |->
         <<"f", "u", "n", "c", "t", "i", "o", "n", "_", "c", "a", "l", "l",
         "_", "o", "u", "t", "p", "u", "t">>,
     assistant |-> <<"a", "s", "s", "i", "s", "t", "a", "n", "t">>,
     output_text |->
         <<"o", "u", "t", "p", "u", "t", "_", "t", "e", "x", "t">>,
     summary_text |->
         <<"s", "u", "m", "m", "a", "r", "y", "_", "t", "e", "x", "t">>,
     exec_command |->
         <<"e", "x", "e", "c", "_", "c", "o", "m", "m", "a", "n", "d">>,
     unknown |-> <<"u", "n", "k", "n", "o", "w", "n">>,
     message |-> <<"m", "e", "s", "s", "a", "g", "e">>,
     reasoning |-> <<"r", "e", "a", "s", "o", "n", "i", "n", "g">>,
     None |-> <<"N", "o", "n", "e">>,
     True |-> <<"T", "r", "u", "e">>,
     False |-> <<"F", "a", "l", "s", "e">>,
     utc_offset |-> <<"+", "0", "0", ":", "0", "0">>,
     midnight |-> <<"0", "0", ":", "0", "0", ":", "0", "0">>,
     UTC |-> <<" ", "U", "T", "C">>]

DigitVal(c) ==
    CASE c = "0" -> 0 [] c = "1" -> 1 [] c = "2" -> 2 [] c = "3" -> 3
      [] c = "4" -> 4 [] c = "5" -> 5 [] c = "6" -> 6 [] c = "7" -> 7
      [] c = "8" -> 8 [] c = "9" -> 9

RECURSIVE DigitsToNat(_)
DigitsToNat(ds) ==
    IF ds = <<>> THEN 0
    ELSE 10 * DigitsToNat(SubSeq(ds, 1, Len(ds) - 1)) + DigitVal(ds[Len(ds)])

RECURSIVE SkipWs(_, _)
SkipWs(s, i) == IF i <= Len(s) /\ s[i] \in Ws THEN SkipWs(s, i + 1) ELSE i

RECURSIVE ScanDigits(_, _)
ScanDigits(s, i) ==
    IF i <= Len(s) /\ s[i] \in Digits THEN ScanDigits(s, i + 1) ELSE i

StartsWith(s, i, lit) ==
    /\ i + Len(lit) - 1 <= Len(s)
    /\ SubSeq(s, i, i + Len(lit) - 1) = lit

ParseFail == [ok |-> FALSE, val |-> JNull, next |-> 0]
ParseOk(v, n) == [ok |-> TRUE, val |-> v, next |-> n]

Unescape(c) ==
    CASE c = "\"" -> "\"" [] c = "\\" -> "\\" [] c = "/" -> "/"
      [] c = "n" -> "\n" [] c = "t" -> "\t" [] c = "r" -> "\r"

\* the string scanner, from the character after the opening quote
RECURSIVE ScanString(_, _, _)
ScanString(s, i, acc) ==
    IF i > Len(s) THEN ParseFail
    ELSE IF s[i] = "\"" THEN ParseOk(JStr(acc), i + 1)
    ELSE IF s[i] = "\\"
         THEN IF i + 1 <= Len(s) /\ s[i + 1] \in {"\"", "\\", "/", "n", "t", "r"}
              THEN ScanString(s, i + 2, Append(acc, Unescape(s[i + 1])))
              ELSE ParseFail
    ELSE IF s[i] \in {"\n", "\t", "\r"} THEN ParseFail
    ELSE ScanString(s, i + 1, Append(acc, s[i]))

\* NUMBER_RE: (-?(?:0|[1-9]\d*))(\.\d+)?([eE][-+]?\d+)?
ScanNumber(s, i) ==
    LET neg == i <= Len(s) /\ s[i] = "-"
        j == IF neg THEN i + 1 ELSE i
        intEnd == IF j <= Len(s) /\ s[j] = "0" THEN j + 1 ELSE ScanDigits(s, j)
    IN  IF intEnd = j THEN ParseFail
        ELSE LET fracEnd ==
                     IF /\ intEnd <= Len(s)
                        /\ s[intEnd] = "."
                        /\ ScanDigits(s, intEnd + 1) > intEnd + 1
                     THEN ScanDigits(s, intEnd + 1) ELSE intEnd
                 expDigits ==
                     IF fracEnd <= Len(s) /\ s[fracEnd] \in {"e", "E"}
                     THEN IF fracEnd + 1 <= Len(s) /\ s[fracEnd + 1] \in {"+", "-"}
                          THEN fracEnd + 2 ELSE fracEnd + 1
                     ELSE 0
                 expEnd ==
                     IF expDigits # 0 /\ ScanDigits(s, expDigits) > expDigits
                     THEN ScanDigits(s, expDigits) ELSE fracEnd
             IN  IF expEnd = intEnd
                 THEN ParseOk(JNum((IF neg THEN -1 ELSE 1)
                                   * DigitsToNat(SubSeq(s, j, intEnd - 1))), intEnd)
                 ELSE ParseOk(JFloat(SubSeq(s, i, expEnd - 1)), expEnd)

RECURSIVE ParseValue(_, _), ParseElems(_, _, _), ParseMembers(_, _, _)

\* scan_once at index i
ParseValue(s, i) ==
    IF i > Len(s) THEN ParseFail
    ELSE IF s[i] = "\"" THEN ScanString(s, i + 1, <<>>)
    ELSE IF s[i] = "{"
         THEN LET j == SkipWs(s, i + 1)
              IN  IF j <= Len(s) /\ s[j] = "}" THEN ParseOk(EmptyObj, j + 1)
                  ELSE ParseMembers(s, j, <<>>)
    ELSE IF s[i] = "["
         THEN LET j == SkipWs(s, i + 1)
              IN  IF j <= Len(s) /\ s[j] = "]" THEN ParseOk(EmptyList, j + 1)
                  ELSE ParseElems(s, j, <<>>)
    ELSE IF StartsWith(s, i, Lit.null) THEN ParseOk(JNull, i + 4)
    ELSE IF StartsWith(s, i, Lit.true) THEN ParseOk(JBool(TRUE), i + 4)
    ELSE IF StartsWith(s, i, Lit.false) THEN ParseOk(JBool(FALSE), i + 5)
    ELSE IF ScanNumber(s, i).ok THEN ScanNumber(s, i)
    ELSE IF StartsWith(s, i, Lit.NaN) THEN ParseOk(JFloat(Lit.NaN), i + 3)
    ELSE IF StartsWith(s, i, Lit.Infinity) THEN ParseOk(JFloat(Lit.Infinity), i + 8)
    ELSE IF StartsWith(s, i, <<"-">> \o Lit.Infinity)
         THEN ParseOk(JFloat(<<"-">> \o Lit.Infinity), i + 9)
    ELSE ParseFail

\* the elements of an array, i at the start of an element
ParseElems(s, i, acc) ==
    LET r == ParseValue(s, i)
    IN  IF ~r.ok THEN ParseFail
        ELSE LET j == SkipWs(s, r.next)
             IN  IF j > Len(s) THEN ParseFail
                 ELSE IF s[j] = "]" THEN ParseOk(JList(Append(acc, r.val)), j + 1)
                 ELSE IF s[j] = ","
                      THEN ParseElems(s, SkipWs(s, j + 1), Append(acc, r.val))
                 ELSE ParseFail

\* the members of an object, i at the opening quote of a key
ParseMembers(s, i, acc) ==
    IF i > Len(s) \/ s[i] # "\"" THEN ParseFail
    ELSE LET key == ScanString(s, i + 1, <<>>)
         IN  IF ~key.ok THEN ParseFail
             ELSE LET c == SkipWs(s, key.next)
                  IN  IF c > Len(s) \/ s[c] # ":" THEN ParseFail
                      ELSE LET r == ParseValue(s, SkipWs(s, c + 1))
                           IN  IF ~r.ok THEN ParseFail
                               ELSE LET j == SkipWs(s, r.next)
                                        acc2 == DictSet(acc, key.val.s, r.val)
                                    IN  IF j > Len(s) THEN ParseFail
                                        ELSE IF s[j] = "}"
                                             THEN ParseOk(JObj(acc2), j + 1)
                                        ELSE IF s[j] = ","
                                             THEN ParseMembers(s, SkipWs(s, j + 1), acc2)
                                        ELSE ParseFail

\* json.loads(s): ok = FALSE stands for JSONDecodeError
json_loads(s) ==
    LET r == ParseValue(s, SkipWs(s, 1))
    IN  IF r.ok /\ SkipWs(s, r.next) = Len(s) + 1 THEN r ELSE ParseFail

(***************************************************************************)
(* The keys the code reads and the literals it compares with.              *)
(***************************************************************************)
Key ==
    [timestamp |-> <<"t", "i", "m", "e", "s", "t", "a", "m", "p">>,
     type |-> <<"t", "y", "p", "e">>,
     payload |-> <<"p", "a", "y", "l", "o", "a", "d">>,
     message |-> <<"m", "e", "s", "s", "a", "g", "e">>,
     local_images |->
         <<"l", "o", "c", "a", "l", "_", "i", "m", "a", "g", "e", "s">>,
     text |-> <<"t", "e", "x", "t">>,
     last_agent_message |->
         <<"l", "a", "s", "t", "_", "a", "g", "e", "n", "t", "_", "m", "e",
         "s", "s", "a", "g", "e">>,
     turn_id |-> <<"t", "u", "r", "n", "_", "i", "d">>,
     model_context_window |->
         <<"m", "o", "d", "e", "l", "_", "c", "o", "n", "t", "e", "x", "t",
         "_", "w", "i", "n", "d", "o", "w">>,
     reason |-> <<"r", "e", "a", "s", "o", "n">>,
     info |-> <<"i", "n", "f", "o">>,
     total_token_usage |->
         <<"t", "o", "t", "a", "l", "_", "t", "o", "k", "e", "n", "_", "u",
         "s", "a", "g", "e">>,
     num_turns |-> <<"n", "u", "m", "_", "t", "u", "r", "n", "s">>,
     name |-> <<"n", "a", "m", "e">>,
     arguments |-> <<"a", "r", "g", "u", "m", "e", "n", "t", "s">>,
     call_id |-> <<"c", "a", "l", "l", "_", "i", "d">>,
     output |-> <<"o", "u", "t", "p", "u", "t">>,
     role |-> <<"r", "o", "l", "e">>,
     content |-> <<"c", "o", "n", "t", "e", "n", "t">>,
     phase |-> <<"p", "h", "a", "s", "e">>,
     summary |-> <<"s", "u", "m", "m", "a", "r", "y">>,
     id |-> <<"i", "d">>,
     model_provider |->
         <<"m", "o", "d", "e", "l", "_", "p", "r", "o", "v", "i", "d", "e",
         "r">>,
     cli_version |->
         <<"c", "l", "i", "_", "v", "e", "r", "s", "i", "o", "n">>,
     cwd |-> <<"c", "w", "d">>,
     git |-> <<"g", "i", "t">>,
     branch |-> <<"b", "r", "a", "n", "c", "h">>,
     commit_hash |->
         <<"c", "o", "m", "m", "i", "t", "_", "h", "a", "s", "h">>,
     input_tokens |->
         <<"i", "n", "p", "u", "t", "_", "t", "o", "k", "e", "n", "s">>,
     output_tokens |->
         <<"o", "u", "t", "p", "u", "t", "_", "t", "o", "k", "e", "n", "s">>,
     reasoning_output_tokens |->
         <<"r", "e", "a", "s", "o", "n", "i", "n", "g", "_", "o", "u", "t",
         "p", "u", "t", "_", "t", "o", "k", "e", "n", "s">>,
     cmd |-> <<"c", "m", "d">>]

(***************************************************************************)
(* parser.extract_conversation and its two handlers.  A handler's result   *)
(* is the exception it raises ("" for none) and the events it appended.    *)
(***************************************************************************)
Raise(e) == [exc |-> e, evs |-> <<>>]
Emit(evs) == [exc |-> "", evs |-> evs]

lex_nonneg(lex) == lex # Lit.NaN /\ lex[1] # "-"

\* the sign test of a float literal, for v > 0
FloatPositive(lex) ==
    /\ lex # Lit.NaN
    /\ lex[1] # "-"
    /\ \/ lex = Lit.Infinity
       \/ \E i \in 1..Len(lex) :
             /\ lex[i] \in Digits \ {"0"}
             /\ \A j \in 1..i : lex[j] \notin {"e", "E"}

\* any_positive with the comparison v >= 0
RECURSIVE any_non_negative(_)
any_non_negative(items) ==
    IF items = <<>> THEN "False"
    ELSE LET v == items[1].v
         IN  IF v.t \notin {"num", "bool", "float"} THEN "TypeError"
             ELSE IF \/ v.t = "num" /\ v.n >= 0
                     \/ v.t = "bool"
                     \/ v.t = "float" /\ lex_nonneg(v.lex)
                  THEN "True"
             ELSE any_non_negative(Tail(items))

\* any(v > 0 for v in total.values()): "True", "False" or "TypeError"; the
\* generator stops at the first value that is positive
RECURSIVE any_positive(_)
any_positive(items) ==
    IF items = <<>> THEN "False"
    ELSE LET v == items[1].v
         IN  IF v.t \notin {"num", "bool", "float"} THEN "TypeError"
             ELSE IF \/ v.t = "num" /\ v.n > 0
                     \/ v.t = "bool" /\ v.b
                     \/ v.t = "float" /\ FloatPositive(v.lex)
                  THEN "True"
             ELSE any_positive(Tail(items))

handle_event_msg(payload, ts) ==
    IF payload.t # "obj" THEN Raise("AttributeError")
    ELSE LET msg_type == get(payload, Key.type, EmptyStr)
         IN
         IF msg_type = JStr(Lit.user_message)
         THEN Emit(<<[type |-> "user_message", ts |-> ts,
                      text |-> get(payload, Key.message, EmptyStr),
                      images |-> get(payload, Key.local_images, EmptyList)]>>)
         ELSE IF msg_type = JStr(Lit.agent_message)
         THEN Emit(<<[type |-> "agent_commentary", ts |-> ts,
                      text |-> get(payload, Key.message, EmptyStr)]>>)
         ELSE IF msg_type = JStr(Lit.agent_reasoning)
         THEN Emit(<<[type |-> "reasoning", ts |-> ts,
                      text |-> get(payload, Key.text, EmptyStr)]>>)
         ELSE IF msg_type = JStr(Lit.task_complete)
         THEN Emit(<<[type |-> "task_complete", ts |-> ts,
                      text |-> get(payload, Key.last_agent_message, EmptyStr),
                      turn_id |-> get(payload, Key.turn_id, EmptyStr)]>>)
         ELSE IF msg_type = JStr(Lit.task_started)
         THEN Emit(<<[type |-> "task_started", ts |-> ts,
                      turn_id |-> get(payload, Key.turn_id, EmptyStr),
                      model_context_window |->
                          get(payload, Key.model_context_window, EmptyStr)]>>)
         ELSE IF msg_type = JStr(Lit.turn_aborted)
         THEN Emit(<<[type |-> "turn_aborted", ts |-> ts,
                      reason |-> get(payload, Key.reason, EmptyStr)]>>)
         ELSE IF msg_type = JStr(Lit.token_count)
         THEN LET info0 == get(payload, Key.info, JNull)
                  info == IF Truthy(info0) THEN info0 ELSE EmptyObj
              IN  IF info.t # "obj" THEN Raise("AttributeError")
                  ELSE LET total == get(info, Key.total_token_usage, EmptyObj)
                       IN  IF ~Truthy(total) THEN Emit(<<>>)
                           ELSE IF total.t # "obj" THEN Raise("AttributeError")
                           ELSE IF any_positive(total.items) = "TypeError"
                                THEN Raise("TypeError")
                           ELSE IF any_positive(total.items) = "True"
                                THEN Emit(<<[type |-> "token_count", ts |-> ts,
                                             total |-> total]>>)
                           ELSE Emit(<<>>)
         ELSE IF msg_type = JStr(Lit.thread_rolled_back)
         THEN Emit(<<[type |-> "thread_rolled_back", ts |-> ts,
                      num_turns |-> get(payload, Key.num_turns, JNum(0))]>>)
         ELSE Emit(<<>>)

\* what a for loop over v visits: the items of a list, the characters of a
\* str, the keys of a dict; anything else is not iterable
Iterable(v) == v.t \in {"list", "str", "obj"}

IterItems(v) ==
    CASE v.t = "list" -> v.items
      [] v.t = "str" -> [i \in 1..Len(v.s) |-> JStr(<<v.s[i]>>)]
      [] v.t = "obj" -> [i \in 1..Len(v.items) |-> JStr(v.items[i].k)]

\* output_text_events that returns after the first output_text block
RECURSIVE output_text_events_first_only(_, _, _, _)
output_text_events_first_only(blocks, phase, ts, acc) ==
    IF blocks = <<>> THEN Emit(acc)
    ELSE LET block == Head(blocks)
         IN  IF block.t # "obj" THEN Raise("AttributeError")
             ELSE IF get(block, Key.type, JNull) = JStr(Lit.output_text)
                  THEN Emit(Append(acc, [type |-> "assistant_text", ts |-> ts,
                                         text |-> get(block, Key.text, EmptyStr),
                                         phase |-> phase]))
             ELSE output_text_events_first_only(Tail(blocks), phase, ts, acc)

\* the loop over payload.content of an assistant message
RECURSIVE output_text_events(_, _, _, _)
output_text_events(blocks, phase, ts, acc) ==
    IF blocks = <<>> THEN Emit(acc)
    ELSE LET block == Head(blocks)
         IN  IF block.t # "obj" THEN Raise("AttributeError")
             ELSE IF get(block, Key.type, JNull) = JStr(Lit.output_text)
                  THEN output_text_events(Tail(blocks), phase, ts,
                           Append(acc, [type |-> "assistant_text", ts |-> ts,
                                        text |-> get(block, Key.text, EmptyStr),
                                        phase |-> phase]))
             ELSE output_text_events(Tail(blocks), phase, ts, acc)

\* the loop over payload.summary of a reasoning item
RECURSIVE summary_text_events(_, _, _)
summary_text_events(summary, ts, acc) ==
    IF summary = <<>> THEN Emit(acc)
    ELSE LET s == Head(summary)
         IN  IF s.t # "obj" THEN Raise("AttributeError")
             ELSE IF get(s, Key.type, JNull) = JStr(Lit.summary_text)
                  THEN summary_text_events(Tail(summary), ts,
                           Append(acc, [type |-> "reasoning", ts |-> ts,
                                        text |-> get(s, Key.text, EmptyStr)]))
             ELSE summary_text_events(Tail(summary), ts, acc)

handle_response_item(payload, ts) ==
    IF payload.t # "obj" THEN Raise("AttributeError")
    ELSE LET item_type == get(payload, Key.type, EmptyStr)
             role == get(payload, Key.role, EmptyStr)
         IN
         IF item_type = JStr(Lit.function_call)
         THEN Emit(<<[type |-> "tool_call", ts |-> ts,
                      name |-> get(payload, Key.name, EmptyStr),
                      arguments |-> get(payload, Key.arguments, EmptyStr),
                      call_id |-> get(payload, Key.call_id, EmptyStr)]>>)
         ELSE IF item_type = JStr(Lit.function_call_output)
         THEN Emit(<<[type |-> "tool_output", ts |-> ts,
                      call_id |-> get(payload, Key.call_id, EmptyStr),
                      output |-> get(payload, Key.output, EmptyStr)]>>)
         ELSE IF item_type = JStr(Lit.message) /\ role = JStr(Lit.assistant)
         THEN LET content == get(payload, Key.content, EmptyList)
                  phase == get(payload, Key.phase, EmptyStr)
              IN  IF ~Iterable(content) THEN Raise("TypeError")
                  ELSE output_text_events(IterItems(content), phase, ts, <<>>)
         ELSE IF item_type = JStr(Lit.reasoning)
         THEN LET summary == get(payload, Key.summary, EmptyList)
              IN  IF ~Iterable(summary) THEN Raise("TypeError")
                  ELSE summary_text_events(IterItems(summary), ts, <<>>)
         ELSE Emit(<<>>)

\* extract_entry that keeps the first session_meta payload it met
extract_entry_first_meta_wins(m, evs, entry) ==
    IF entry.t # "obj"
    THEN [exc |-> "AttributeError", meta |-> m, events |-> evs]
    ELSE LET ts == get(entry, Key.timestamp, EmptyStr)
             etype == get(entry, Key.type, EmptyStr)
             payload == get(entry, Key.payload, EmptyObj)
         IN  IF etype = JStr(Lit.session_meta)
             THEN [exc |-> "", meta |-> IF m = JNull THEN payload ELSE m,
                   events |-> evs]
             ELSE IF etype = JStr(Lit.event_msg)
             THEN [exc |-> handle_event_msg(payload, ts).exc, meta |-> m,
                   events |-> evs \o handle_event_msg(payload, ts).evs]
             ELSE IF etype = JStr(Lit.response_item)
             THEN [exc |-> handle_response_item(payload, ts).exc, meta |-> m,
                   events |-> evs \o handle_response_item(payload, ts).evs]
             ELSE [exc |-> "", meta |-> m, events |-> evs]

\* extract_entry that puts a record's events in front of the earlier ones
extract_entry_prepends(m, evs, entry) ==
    IF entry.t # "obj"
    THEN [exc |-> "AttributeError", meta |-> m, events |-> evs]
    ELSE LET ts == get(entry, Key.timestamp, EmptyStr)
             etype == get(entry, Key.type, EmptyStr)
             payload == get(entry, Key.payload, EmptyObj)
         IN  IF etype = JStr(Lit.session_meta)
             THEN [exc |-> "", meta |-> payload, events |-> evs]
             ELSE IF etype = JStr(Lit.event_msg)
             THEN [exc |-> handle_event_msg(payload, ts).exc, meta |-> m,
                   events |-> handle_event_msg(payload, ts).evs \o evs]
             ELSE IF etype = JStr(Lit.response_item)
             THEN [exc |-> handle_response_item(payload, ts).exc, meta |-> m,
                   events |-> handle_response_item(payload, ts).evs \o evs]
             ELSE [exc |-> "", meta |-> m, events |-> evs]

\* one iteration of the loop of extract_conversation over the entries:
\* the exception raised ("" for none), meta and events after the entry
extract_entry(m, evs, entry) ==
    IF entry.t # "obj"
    THEN [exc |-> "AttributeError", meta |-> m, events |-> evs]
    ELSE LET ts == get(entry, Key.timestamp, EmptyStr)
             etype == get(entry, Key.type, EmptyStr)
             payload == get(entry, Key.payload, EmptyObj)
         IN  IF etype = JStr(Lit.session_meta)
             THEN [exc |-> "", meta |-> payload, events |-> evs]
             ELSE IF etype = JStr(Lit.event_msg)
             THEN [exc |-> handle_event_msg(payload, ts).exc, meta |-> m,
                   events |-> evs \o handle_event_msg(payload, ts).evs]
             ELSE IF etype = JStr(Lit.response_item)
             THEN [exc |-> handle_response_item(payload, ts).exc, meta |-> m,
                   events |-> evs \o handle_response_item(payload, ts).evs]
             ELSE [exc |-> "", meta |-> m, events |-> evs]

(***************************************************************************)
(* parser.parse_jsonl                                                      *)
(***************************************************************************)
RECURSIVE lstrip(_)
lstrip(s) == IF s # <<>> /\ s[1] \in Ws THEN lstrip(Tail(s)) ELSE s

RECURSIVE rstrip(_)
rstrip(s) ==
    IF s # <<>> /\ s[Len(s)] \in Ws THEN rstrip(SubSeq(s, 1, Len(s) - 1)) ELSE s

strip(s) == rstrip(lstrip(s))

\* parse_jsonl_line with a line that fails to decode kept as None
parse_jsonl_line_keeps_bad(ents, line) ==
    LET stripped == strip(line)
    IN  IF stripped = <<>> THEN ents
        ELSE IF json_loads(stripped).ok
             THEN Append(ents, json_loads(stripped).val)
             ELSE Append(ents, JNull)

\* one iteration of the loop over the lines: the entries after the line
parse_jsonl_line(ents, line) ==
    LET stripped == strip(line)
    IN  IF stripped = <<>> THEN ents
        ELSE IF json_loads(stripped).ok
             THEN Append(ents, json_loads(stripped).val)
             ELSE ents

NoErr == [site |-> "", exc |-> ""]

\* lines of a log file, as iteration over the file yields them
LinePool ==
    {<<>>,
     <<"\n">>,
     <<" ", " ", "\n">>,
     <<"1", "\n">>,
     <<" ", "1", " ", "\n">>,
     <<"\t", "1">>,
     <<"[", "]", "\n">>,
     <<"[", "1", "]", "\r", "\n">>,
     <<"[", "[", "1", "]", ",", " ", "1", "]", "\n">>,
     <<"[", "\n">>,
     <<"]", "\n">>,
     <<"1", " ", "1", "\n">>,
     <<"[", "1", "\n">>,
     <<"{", "}", "\n">>,
     <<"{", "\"", "a", "\"", ":", "1", "}", "\n">>,
     <<"{", "\"", "a", "\"", "\n">>,
     <<"n", "u", "l", "l", "\n">>,
     <<"n", "u", "l", "\n">>,
     <<"\"", "x", "\"", "\n">>,
     <<"\"", "x", "\n">>,
     <<"-", "1", "\n">>}

RECURSIVE SeqsUpTo(_, _)
SeqsUpTo(S, n) ==
    IF n = 0 THEN {<<>>}
    ELSE LET shorter == SeqsUpTo(S, n - 1)
         IN  shorter \cup {Append(q, x) : q \in shorter, x \in S}

InitReader ==
    /\ lines \in SeqsUpTo(LinePool, MaxLines)
    /\ pc = "read"
    /\ err = NoErr
    /\ entries = <<>>
    /\ idx = 0
    /\ meta = JNull
    /\ events = <<>>
    /\ hdr = <<>>
    /\ sidebar_items = <<>>
    /\ message_blocks = <<>>
    /\ msg_idx = 0
    /\ html = <<>>
    /\ pos = 0

parse_jsonl ==
    /\ pc = "read"
    /\ idx < Len(lines)
    /\ idx' = idx + 1
    /\ entries' = parse_jsonl_line(entries, lines[idx + 1])
    /\ UNCHANGED <<pc, err, lines, meta, events, hdr,
                   sidebar_items, message_blocks, msg_idx, html, pos>>

parse_jsonl_return ==
    /\ pc = "read"
    /\ idx = Len(lines)
    /\ pc' = "returned"
    /\ UNCHANGED <<err, lines, entries, idx, meta, events, hdr,
                   sidebar_items, message_blocks, msg_idx, html, pos>>

NextReader == parse_jsonl \/ parse_jsonl_return

SpecReader == InitReader /\ [][NextReader]_vars

(***************************************************************************)
(* Python values as text: str(), repr(), slicing, str.replace.             *)
(***************************************************************************)

Take(s, n) == SubSeq(s, 1, IF Len(s) < n THEN Len(s) ELSE n)

RECURSIVE NatToChars(_)
NatToChars(n) ==
    IF n < 10 THEN <<ToString(n)>>
    ELSE NatToChars(n \div 10) \o <<ToString(n % 10)>>

IntToChars(n) == IF n < 0 THEN <<"-">> \o NatToChars(-n) ELSE NatToChars(n)

\* repr(v).  A str is quoted with single quotes (repr's other quoting and
\* its backslash escapes are not modelled); a float keeps its literal.
RECURSIVE PyRepr(_), ReprItems(_), ReprPairs(_)
PyRepr(v) ==
    CASE v.t = "null" -> Lit.None
      [] v.t = "bool" -> IF v.b THEN Lit.True ELSE Lit.False
      [] v.t = "num" -> IntToChars(v.n)
      [] v.t = "float" -> v.lex
      [] v.t = "str" -> <<"'">> \o v.s \o <<"'">>
      [] v.t = "list" -> <<"[">> \o ReprItems(v.items) \o <<"]">>
      [] v.t = "obj" -> <<"{">> \o ReprPairs(v.items) \o <<"}">>

ReprItems(items) ==
    IF items = <<>> THEN <<>>
    ELSE IF Len(items) = 1 THEN PyRepr(items[1])
    ELSE PyRepr(items[1]) \o <<",", " ">> \o ReprItems(Tail(items))

ReprPairs(items) ==
    IF items = <<>> THEN <<>>
    ELSE LET one == <<"'">> \o items[1].k \o <<"'", ":", " ">> \o PyRepr(items[1].v)
         IN  IF Len(items) = 1 THEN one
             ELSE one \o <<",", " ">> \o ReprPairs(Tail(items))

\* str(v)
PyStr(v) == IF v.t = "str" THEN v.s ELSE PyRepr(v)

\* v[:n] is defined on a str and on a list; TypeError otherwise
Sliceable(v) == v.t \in {"str", "list"}

Slice(v, n) ==
    IF v.t = "str" THEN JStr(Take(v.s, n)) ELSE JList(Take(v.items, n))

\* s.replace(old, new) for a one-character old
ReplaceChar(s, old, new) ==
    [i \in 1..Len(s) |-> IF s[i] = old THEN new ELSE s[i]]

(***************************************************************************)
(* markdown.escape and markdown.render_markdown                            *)
(***************************************************************************)
HtmlSpecial == {"&", "<", ">", "\"", "'"}

EscapeChar(c) ==
    CASE c = "&" -> "&amp;"
      [] c = "<" -> "&lt;"
      [] c = ">" -> "&gt;"
      [] c = "\"" -> "&quot;"
      [] c = "'" -> "&#x27;"
      [] OTHER -> c

\* html.escape(s)
html_escape(s) == [i \in 1..Len(s) |-> EscapeChar(s[i])]

\* escape(text): html.escape(str(text)) if text else ""
escape(v) == IF Truthy(v) THEN html_escape(PyStr(v)) ELSE <<>>

\* the first index at or after i where s holds pat, 0 when there is none
RECURSIVE Find(_, _, _)
Find(s, pat, i) ==
    IF i + Len(pat) - 1 > Len(s) THEN 0
    ELSE IF SubSeq(s, i, i + Len(pat) - 1) = pat THEN i
    ELSE Find(s, pat, i + 1)

WordChars ==
    Digits \cup {"_"} \cup
    {"a", "b", "c", "d", "e", "f", "g", "h", "i", "j", "k", "l", "m", "n", "o",
     "p", "q", "r", "s", "t", "u", "v", "w", "x", "y", "z",
     "A", "B", "C", "D", "E", "F", "G", "H", "I", "J", "K", "L", "M", "N", "O",
     "P", "Q", "R", "S", "T", "U", "V", "W", "X", "Y", "Z"}

RECURSIVE ScanWord(_, _)
ScanWord(s, i) ==
    IF i <= Len(s) /\ s[i] \in WordChars THEN ScanWord(s, i + 1) ELSE i

\* the grave accent, which a string of this language cannot hold
Backtick == "U+0060"

Fence == <<Backtick, Backtick, Backtick>>

\* the fenced code block substitution (re.DOTALL), from index i on
RECURSIVE sub_code_blocks(_, _)
sub_code_blocks(s, i) ==
    LET open == Find(s, Fence, i)
    IN  IF open = 0 THEN s
        ELSE LET nl == ScanWord(s, open + 3)
                 close == IF nl <= Len(s) /\ s[nl] = "\n"
                          THEN Find(s, Fence, nl + 1) ELSE 0
             IN  IF close = 0 THEN sub_code_blocks(s, open + 1)
                 ELSE LET done == SubSeq(s, 1, open - 1)
                                  \o <<"<pre><code class=\"language-">>
                                  \o SubSeq(s, open + 3, nl - 1) \o <<"\">">>
                                  \o SubSeq(s, nl + 1, close - 1)
                                  \o <<"</code></pre>">>
                      IN  sub_code_blocks(done \o SubSeq(s, close + 3, Len(s)),
                                          Len(done) + 1)

\* the inline code substitution, from index i on
RECURSIVE sub_inline_code(_, _)
sub_inline_code(s, i) ==
    LET open == Find(s, <<Backtick>>, i)
    IN  IF open = 0 THEN s
        ELSE LET close == Find(s, <<Backtick>>, open + 1)
             IN  IF close = 0 THEN s
                 ELSE IF close = open + 1 THEN sub_inline_code(s, open + 1)
                 ELSE LET done == SubSeq(s, 1, open - 1) \o <<"<code>">>
                                  \o SubSeq(s, open + 1, close - 1) \o <<"</code>">>
                      IN  sub_inline_code(done \o SubSeq(s, close + 1, Len(s)),
                                          Len(done) + 1)

BoldMark(s, j) == j + 1 <= Len(s) /\ s[j] = "*" /\ s[j + 1] = "*"

\* the end of the lazy group (.+?) before a closing **: the least j at or
\* after the given one with ** at j and no newline before it in the group;
\* 0 when there is none
RECURSIVE LazyEndBold(_, _)
LazyEndBold(s, j) ==
    IF j > Len(s) \/ s[j - 1] = "\n" THEN 0
    ELSE IF BoldMark(s, j) THEN j
    ELSE LazyEndBold(s, j + 1)

\* re.sub(r"\*\*(.+?)\*\*", r"<strong>\1</strong>", ...), from index i on
RECURSIVE sub_bold(_, _)
sub_bold(s, i) ==
    LET open == Find(s, <<"*", "*">>, i)
    IN  IF open = 0 THEN s
        ELSE LET close == IF open + 2 <= Len(s) /\ s[open + 2] # "\n"
                          THEN LazyEndBold(s, open + 3) ELSE 0
             IN  IF close = 0 THEN sub_bold(s, open + 1)
                 ELSE LET done == SubSeq(s, 1, open - 1) \o <<"<strong>">>
                                  \o SubSeq(s, open + 2, close - 1) \o <<"</strong>">>
                      IN  sub_bold(done \o SubSeq(s, close + 2, Len(s)),
                                   Len(done) + 1)

\* (?<!\*)\*(?!\*) at index j
LoneStar(s, j) ==
    /\ j <= Len(s)
    /\ s[j] = "*"
    /\ (j = 1 \/ s[j - 1] # "*")
    /\ (j = Len(s) \/ s[j + 1] # "*")

\* the same for a closing lone star
RECURSIVE LazyEndStar(_, _)
LazyEndStar(s, j) ==
    IF j > Len(s) \/ s[j - 1] = "\n" THEN 0
    ELSE IF LoneStar(s, j) THEN j
    ELSE LazyEndStar(s, j + 1)

RECURSIVE FindLoneStar(_, _)
FindLoneStar(s, i) ==
    IF i > Len(s) THEN 0
    ELSE IF LoneStar(s, i) THEN i
    ELSE FindLoneStar(s, i + 1)

\* re.sub(r"(?<!\*)\*(?!\*)(.+?)(?<!\*)\*(?!\*)", r"<em>\1</em>", ...)
RECURSIVE sub_italic(_, _)
sub_italic(s, i) ==
    LET open == FindLoneStar(s, i)
    IN  IF open = 0 THEN s
        ELSE LET close == IF open + 1 <= Len(s) /\ s[open + 1] # "\n"
                          THEN LazyEndStar(s, open + 2) ELSE 0
             IN  IF close = 0 THEN sub_italic(s, open + 1)
                 ELSE LET done == SubSeq(s, 1, open - 1) \o <<"<em>">>
                                  \o SubSeq(s, open + 1, close - 1) \o <<"</em>">>
                      IN  sub_italic(done \o SubSeq(s, close + 1, Len(s)),
                                     Len(done) + 1)

\* the index of the newline that ends the line holding index i, Len(s) + 1
\* on the last line
RECURSIVE LineEnd(_, _)
LineEnd(s, i) ==
    IF i > Len(s) \/ s[i] = "\n" THEN i ELSE LineEnd(s, i + 1)

\* re.sub(r"^<prefix>(.+)$", r"<open>\1<close>", ..., flags=re.MULTILINE),
\* from the line that starts at index i on
RECURSIVE sub_line_prefix(_, _, _, _, _)
sub_line_prefix(s, i, prefix, open, close) ==
    IF i > Len(s) THEN s
    ELSE LET e == LineEnd(s, i)
         IN  IF StartsWith(s, i, prefix) /\ i + Len(prefix) < e
             THEN LET done == SubSeq(s, 1, i - 1) \o open
                              \o SubSeq(s, i + Len(prefix), e - 1) \o close
                  IN  sub_line_prefix(done \o SubSeq(s, e, Len(s)),
                                      Len(done) + 2, prefix, open, close)
             ELSE sub_line_prefix(s, e + 1, prefix, open, close)

\* render_markdown(text); the list marker of the source is the three
\* characters U+00E2 U+20AC U+00A2, written here by their code points
render_markdown(v) ==
    LET escaped == escape(v)
        fenced == sub_code_blocks(escaped, 1)
        coded == sub_inline_code(fenced, 1)
        bolded == sub_bold(coded, 1)
        italic == sub_italic(bolded, 1)
        h3 == sub_line_prefix(italic, 1, <<"#", "#", "#", " ">>, <<"<h3>">>, <<"</h3>">>)
        h2 == sub_line_prefix(h3, 1, <<"#", "#", " ">>, <<"<h2>">>, <<"</h2>">>)
        h1 == sub_line_prefix(h2, 1, <<"#", " ">>, <<"<h1>">>, <<"</h1>">>)
    IN  sub_line_prefix(h1, 1, <<"-", " ">>, <<"{U+00E2 U+20AC U+00A2} ">>, <<>>)

(***************************************************************************)
(* formatting.format_ts and formatting.format_ts_full.                     *)
(* datetime.fromisoformat is modelled on the extended format               *)
(* YYYY-MM-DD[<sep>HH[:MM[:SS[.f+]]][(+|-)HH:MM]]; the basic format        *)
(* without separators, week dates, an offset written without a colon and   *)
(* a stray character between the seconds and the offset, which the         *)
(* library also accepts, are taken as unparseable, and strftime of a year  *)
(* before 1000 is not modelled; no input of the model has one of these.    *)
(***************************************************************************)
AllDigits(s) == \A i \in 1..Len(s) : s[i] \in Digits

\* ts_str.replace("Z", "+00:00")
RECURSIVE replace_Z(_)
replace_Z(s) ==
    IF s = <<>> THEN <<>>
    ELSE IF s[1] = "Z" THEN Lit.utc_offset \o replace_Z(Tail(s))
    ELSE <<s[1]>> \o replace_Z(Tail(s))

TwoDigits(s, i) ==
    IF i + 1 <= Len(s) /\ s[i] \in Digits /\ s[i + 1] \in Digits
    THEN 10 * DigitVal(s[i]) + DigitVal(s[i + 1])
    ELSE -1

DaysInMonth(y, m) ==
    IF m \in {4, 6, 9, 11} THEN 30
    ELSE IF m = 2
         THEN IF (y % 4 = 0 /\ y % 100 # 0) \/ y % 400 = 0 THEN 29 ELSE 28
    ELSE 31

IsoDate(s) ==
    /\ Len(s) = 10
    /\ AllDigits(SubSeq(s, 1, 4))
    /\ s[5] = "-"
    /\ s[8] = "-"
    /\ DigitsToNat(SubSeq(s, 1, 4)) >= 1
    /\ TwoDigits(s, 6) \in 1..12
    /\ TwoDigits(s, 9) >= 1
    /\ TwoDigits(s, 9) <= DaysInMonth(DigitsToNat(SubSeq(s, 1, 4)), TwoDigits(s, 6))

\* (+|-)HH:MM
IsoOffset(s) ==
    /\ Len(s) = 6
    /\ s[1] \in {"+", "-"}
    /\ TwoDigits(s, 2) \in 0..23
    /\ s[4] = ":"
    /\ TwoDigits(s, 5) \in 0..59

\* HH[:MM[:SS[.f+]]]
IsoTime(s) ==
    /\ Len(s) >= 2
    /\ TwoDigits(s, 1) \in 0..23
    /\ Len(s) > 2 => /\ Len(s) >= 5
                      /\ s[3] = ":"
                      /\ TwoDigits(s, 4) \in 0..59
    /\ Len(s) > 5 => /\ Len(s) >= 8
                      /\ s[6] = ":"
                      /\ TwoDigits(s, 7) \in 0..59
    /\ Len(s) > 8 => /\ Len(s) >= 10
                      /\ s[9] \in {".", ","}
                      /\ AllDigits(SubSeq(s, 10, Len(s)))

\* the index of the sign that starts the offset of a time, 0 when none
RECURSIVE FindSign(_, _)
FindSign(s, i) ==
    IF i > Len(s) THEN 0
    ELSE IF s[i] \in {"+", "-"} THEN i
    ELSE FindSign(s, i + 1)

\* HH:MM:SS of a time, missing fields being zero
PadTime(s) ==
    SubSeq(s, 1, IF Len(s) < 8 THEN Len(s) ELSE 8)
        \o SubSeq(Lit.midnight, (IF Len(s) < 8 THEN Len(s) ELSE 8) + 1, 8)

IsoFail == [ok |-> FALSE, date |-> <<>>, time |-> <<>>]

\* datetime.fromisoformat(s): ok = FALSE stands for ValueError
fromisoformat(s) ==
    IF Len(s) < 10 \/ ~IsoDate(SubSeq(s, 1, 10)) THEN IsoFail
    ELSE IF Len(s) = 10
         THEN [ok |-> TRUE, date |-> s, time |-> Lit.midnight]
    ELSE LET rest == SubSeq(s, 12, Len(s))
             sign == FindSign(rest, 1)
             clock == IF sign = 0 THEN rest ELSE SubSeq(rest, 1, sign - 1)
             offset == IF sign = 0 THEN <<>> ELSE SubSeq(rest, sign, Len(rest))
         IN  IF IsoTime(clock) /\ (sign = 0 \/ IsoOffset(offset))
             THEN [ok |-> TRUE, date |-> SubSeq(s, 1, 10), time |-> PadTime(clock)]
             ELSE IsoFail

\* format_ts(ts_str): the exception raised ("" for none) and the result
format_ts(v) ==
    IF v.t # "str" THEN [exc |-> "AttributeError", val |-> <<>>]
    ELSE IF fromisoformat(replace_Z(v.s)).ok
         THEN [exc |-> "", val |-> fromisoformat(replace_Z(v.s)).time]
    ELSE [exc |-> "", val |-> Take(v.s, 19)]

\* format_ts_full(ts_str)
format_ts_full(v) ==
    IF v.t # "str" THEN [exc |-> "AttributeError", val |-> <<>>]
    ELSE IF fromisoformat(replace_Z(v.s)).ok
         THEN [exc |-> "",
               val |-> fromisoformat(replace_Z(v.s)).date \o <<" ">>
                       \o fromisoformat(replace_Z(v.s)).time \o Lit.UTC]
    ELSE [exc |-> "", val |-> v.s]

(***************************************************************************)
(* json.dumps(obj, indent=None) and json.dumps(obj, indent=2).  Not        *)
(* modelled: the \uXXXX form of non-ASCII characters; a float keeps its    *)
(* literal.                                                                *)
(***************************************************************************)
RECURSIVE DumpsChars(_)
DumpsChars(s) ==
    IF s = <<>> THEN <<>>
    ELSE (CASE s[1] = "\"" -> <<"\\", "\"">>
            [] s[1] = "\\" -> <<"\\", "\\">>
            [] s[1] = "\n" -> <<"\\", "n">>
            [] s[1] = "\t" -> <<"\\", "t">>
            [] s[1] = "\r" -> <<"\\", "r">>
            [] OTHER -> <<s[1]>>) \o DumpsChars(Tail(s))

DumpsString(s) == <<"\"">> \o DumpsChars(s) \o <<"\"">>

Indent(level) == [i \in 1..(2 * level) |-> " "]

NewLine(pretty, level) == IF pretty THEN <<"\n">> \o Indent(level) ELSE <<>>

ItemSep(pretty, level) ==
    IF pretty THEN <<",", "\n">> \o Indent(level) ELSE <<",", " ">>

RECURSIVE json_dumps(_, _, _), DumpsItems(_, _, _), DumpsPairs(_, _, _)
json_dumps(v, pretty, level) ==
    CASE v.t = "null" -> Lit.null
      [] v.t = "bool" -> IF v.b THEN Lit.true ELSE Lit.false
      [] v.t = "num" -> IntToChars(v.n)
      [] v.t = "float" -> v.lex
      [] v.t = "str" -> DumpsString(v.s)
      [] v.t = "list" ->
            IF v.items = <<>> THEN <<"[", "]">>
            ELSE <<"[">> \o NewLine(pretty, level + 1)
                 \o DumpsItems(v.items, pretty, level + 1)
                 \o NewLine(pretty, level) \o <<"]">>
      [] v.t = "obj" ->
            IF v.items = <<>> THEN <<"{", "}">>
            ELSE <<"{">> \o NewLine(pretty, level + 1)
                 \o DumpsPairs(v.items, pretty, level + 1)
                 \o NewLine(pretty, level) \o <<"}">>

DumpsItems(items, pretty, level) ==
    IF Len(items) = 1 THEN json_dumps(items[1], pretty, level)
    ELSE json_dumps(items[1], pretty, level) \o ItemSep(pretty, level)
         \o DumpsItems(Tail(items), pretty, level)

DumpsPairs(items, pretty, level) ==
    LET one == DumpsString(items[1].k) \o <<":", " ">>
               \o json_dumps(items[1].v, pretty, level)
    IN  IF Len(items) = 1 THEN one
        ELSE one \o ItemSep(pretty, level) \o DumpsPairs(Tail(items), pretty, level)

(***************************************************************************)
(* html_builder: the renderers.  A renderer's result is the exception it   *)
(* raises ("" for none), the sidebar entries and the detail blocks it      *)
(* appended.  Every renderer raises, if at all, before its first append.   *)
(***************************************************************************)
RenderRaise(e) == [exc |-> e, sb |-> <<>>, mb |-> <<>>]

\* Rendered without the append to the detail blocks
Rendered_sidebar_only(entry, detail) == [exc |-> "", sb |-> <<entry>>, mb |-> <<>>]

\* a renderer that appended one sidebar entry and one detail block
Rendered(entry, detail) == [exc |-> "", sb |-> <<entry>>, mb |-> <<detail>>]

RenderNothing == [exc |-> "", sb |-> <<>>, mb |-> <<>>]

\* the <a> element every renderer appends to the sidebar
SidebarEntry(role, icon, ts, anchor, content) ==
    <<"<a class=\"tree-node tree-role-" \o role \o "\" href=\"#", anchor,
      "\"><span class=\"tree-ts\">">> \o ts
    \o <<"</span> <span class=\"tree-content\">" \o icon>> \o content
    \o <<"</span></a>">>

\* evt["text"][:n].replace("\n", " "): the exception or the preview
Preview(text, n) ==
    IF ~Sliceable(text) THEN [exc |-> "TypeError", val |-> EmptyStr]
    ELSE IF Slice(text, n).t # "str" THEN [exc |-> "AttributeError", val |-> EmptyStr]
    ELSE [exc |-> "", val |-> JStr(ReplaceChar(Slice(text, n).s, "\n", " "))]

render_user_message(evt, ts, anchor) ==
    IF Preview(evt.text, 80).exc # "" THEN RenderRaise(Preview(evt.text, 80).exc)
    ELSE Rendered(
           SidebarEntry("user", "{U+1F464} ", ts, anchor,
                        escape(Preview(evt.text, 80).val)),
           <<"<div class=\"user-message\" id=\"", anchor,
             "\"><div class=\"message-timestamp\">">> \o ts
           \o <<"</div><div class=\"markdown-content\">">>
           \o render_markdown(evt.text) \o <<"</div></div>">>)

render_reasoning(evt, ts, anchor) ==
    IF ~Sliceable(evt.text) THEN RenderRaise("TypeError")
    ELSE Rendered(
           SidebarEntry("thinking", "{U+1F4AD} ", ts, anchor,
                        escape(Slice(evt.text, 60))),
           <<"<div class=\"thinking-block\" id=\"", anchor,
             "\"><div class=\"message-timestamp\">">> \o ts
           \o <<"</div><div class=\"thinking-text\">">>
           \o escape(evt.text) \o <<"</div></div>">>)

render_agent_commentary(evt, ts, anchor) ==
    IF ~Sliceable(evt.text) THEN RenderRaise("TypeError")
    ELSE Rendered(
           SidebarEntry("assistant", "{U+1F4AC} ", ts, anchor,
                        escape(Slice(evt.text, 60))),
           <<"<div class=\"commentary-message\" id=\"", anchor,
             "\"><div class=\"message-timestamp\">">> \o ts
           \o <<"</div><div class=\"markdown-content\">">>
           \o render_markdown(evt.text) \o <<"</div></div>">>)

\* f' ({evt["phase"]})' if evt.get("phase") else ""
PhaseLabel(phase) ==
    IF Truthy(phase) THEN <<" ", "(">> \o PyStr(phase) \o <<")">> ELSE <<>>

render_assistant_text(evt, ts, anchor) ==
    IF Preview(evt.text, 60).exc # "" THEN RenderRaise(Preview(evt.text, 60).exc)
    ELSE Rendered(
           SidebarEntry("assistant", "{U+1F916} ", ts, anchor,
                        escape(Preview(evt.text, 60).val)),
           <<"<div class=\"assistant-message\" id=\"", anchor,
             "\"><div class=\"message-timestamp\">">> \o ts
           \o html_escape(PhaseLabel(evt.phase))
           \o <<"</div><div class=\"assistant-text markdown-content\">">>
           \o render_markdown(evt.text) \o <<"</div></div>">>)

\* json.loads(evt["arguments"]): TypeError on a value that is not a str,
\* JSONDecodeError on a str that does not decode; both are caught
LoadsArguments(arguments) ==
    IF arguments.t # "str" THEN ParseFail ELSE json_loads(arguments.s)

\* the first try block of _render_tool_call, given what json.loads made of
\* the arguments: the exception that escapes it ("" for none) and
\* args_preview
tool_args_preview(name, arguments, parsed) ==
    LET fallback ==
            IF Sliceable(arguments)
            THEN [exc |-> "", val |-> Slice(arguments, 80)]
            ELSE [exc |-> "TypeError", val |-> EmptyStr]
    IN  IF ~parsed.ok THEN fallback
        ELSE IF name = JStr(Lit.exec_command)
             THEN IF parsed.val.t # "obj"
                  THEN [exc |-> "AttributeError", val |-> EmptyStr]
                  ELSE IF ~Sliceable(get(parsed.val, Key.cmd, EmptyStr))
                  THEN fallback
                  ELSE [exc |-> "",
                        val |-> Slice(get(parsed.val, Key.cmd, EmptyStr), 80)]
        ELSE [exc |-> "", val |-> JStr(Take(json_dumps(parsed.val, FALSE, 0), 80))]

\* the second try block, given what json.loads made of the arguments (the
\* same both times): args_display
tool_args_display(name, arguments, parsed) ==
    IF ~parsed.ok
    THEN <<"<pre>">> \o escape(arguments) \o <<"</pre>">>
    ELSE IF name = JStr(Lit.exec_command)
         THEN <<"<span class=\"tool-command\">$ ">>
              \o escape(get(parsed.val, Key.cmd, EmptyStr)) \o <<"</span>">>
    ELSE <<"<pre>">> \o html_escape(json_dumps(parsed.val, TRUE, 0)) \o <<"</pre>">>

\* the two appends of _render_tool_call, given the outcome of the first try
\* block and args_display
tool_call_fragments(evt, ts, anchor, preview, args_display) ==
    IF preview.exc # ""
    THEN RenderRaise(preview.exc)
    ELSE Rendered(
           SidebarEntry("tool", "{U+26A1} ", ts, anchor,
                        escape(evt.name) \o <<": ">> \o escape(preview.val)),
           <<"<div class=\"tool-execution pending\" id=\"", anchor,
             "\"><div class=\"message-timestamp\">">> \o ts
           \o <<"</div><div class=\"tool-header\"><span class=\"tool-name\">">>
           \o escape(evt.name)
           \o <<"</span></div><div class=\"tool-args\">">>
           \o args_display \o <<"</div></div>">>)

render_tool_call_parsed(evt, ts, anchor, parsed) ==
    tool_call_fragments(evt, ts, anchor,
                        tool_args_preview(evt.name, evt.arguments, parsed),
                        tool_args_display(evt.name, evt.arguments, parsed))

render_tool_call(evt, ts, anchor) ==
    render_tool_call_parsed(evt, ts, anchor, LoadsArguments(evt.arguments))

OutputPreviewLimit == 2000

HasLen(v) == v.t \in {"str", "list", "obj"}

PyLen(v) == IF v.t = "str" THEN Len(v.s) ELSE Len(v.items)

render_tool_output(evt, ts, anchor) ==
    LET output == evt.output
    IN  IF ~HasLen(output) \/ ~Sliceable(output) THEN RenderRaise("TypeError")
        ELSE LET truncated == PyLen(output) > OutputPreviewLimit
                 size == NatToChars(PyLen(output))
             IN  Rendered(
                   SidebarEntry("tool", "{U+1F4E4} output (", ts, anchor,
                                size \o <<" chars)">>),
                   <<"<div class=\"tool-execution success\" id=\"", anchor,
                     "\"><div class=\"tool-output"
                       \o (IF truncated THEN " expandable" ELSE "")
                       \o "\" onclick=\"this.classList.toggle('expanded')\">"
                       \o "<div class=\"output-preview\"><pre>">>
                   \o escape(Slice(output, OutputPreviewLimit))
                   \o (IF truncated
                       THEN <<"\n<span class=\"expand-hint\">[click to expand ">>
                            \o size \o <<" chars]</span>">>
                       ELSE <<>>)
                   \o <<"</pre></div><div class=\"output-full\"><pre>">>
                   \o escape(output) \o <<"</pre></div></div></div>">>)

render_task_complete(evt, ts, anchor) ==
    IF Preview(evt.text, 60).exc # "" THEN RenderRaise(Preview(evt.text, 60).exc)
    ELSE Rendered(
           SidebarEntry("assistant", "{U+2705} ", ts, anchor,
                        escape(Preview(evt.text, 60).val)),
           <<"<div class=\"assistant-message final-answer\" id=\"", anchor,
             "\"><div class=\"message-timestamp\">">> \o ts
           \o <<" {U+2014} final answer</div><div class=\"assistant-text markdown-content\">">>
           \o render_markdown(evt.text) \o <<"</div></div>">>)

render_task_started(evt, ts, anchor) ==
    Rendered(
      SidebarEntry("system", "{U+25B6} Turn started", ts, anchor, <<>>),
      <<"<div class=\"system-event\" id=\"", anchor,
        "\"><div class=\"message-timestamp\">">> \o ts
      \o <<"</div><span class=\"event-label\">{U+25B6} Turn started</span></div>">>)

render_turn_aborted(evt, ts, anchor) ==
    Rendered(
      SidebarEntry("error", "{U+26D4} Turn aborted: ", ts, anchor,
                   escape(evt.reason)),
      <<"<div class=\"system-event error-event\" id=\"", anchor,
        "\"><div class=\"message-timestamp\">">> \o ts
      \o <<"</div><span class=\"event-label error-text\">{U+26D4} Turn aborted: ">>
      \o escape(evt.reason) \o <<"</span></div>">>)

render_thread_rolled_back(evt, ts, anchor) ==
    Rendered(
      SidebarEntry("system", "{U+21A9} Rolled back ", ts, anchor,
                   PyStr(evt.num_turns) \o <<" turn(s)">>),
      <<"<div class=\"system-event\" id=\"", anchor,
        "\"><div class=\"message-timestamp\">">> \o ts
      \o <<"</div><span class=\"event-label\">{U+21A9} Rolled back ">>
      \o PyStr(evt.num_turns) \o <<" turn(s)</span></div>">>)

\* the digits of a number with a comma before every group of three
RECURSIVE Commas(_)
Commas(ds) ==
    IF Len(ds) <= 3 THEN ds
    ELSE Commas(SubSeq(ds, 1, Len(ds) - 3)) \o <<",">>
         \o SubSeq(ds, Len(ds) - 2, Len(ds))

\* f"{v:,}": a str gives ValueError, None, a list and a dict TypeError
CommaFormattable(v) == v.t \in {"num", "bool", "float"}

CommaFormatError(v) == IF v.t = "str" THEN "ValueError" ELSE "TypeError"

CommaFormat(v) ==
    CASE v.t = "num" ->
            IF v.n < 0 THEN <<"-">> \o Commas(NatToChars(-v.n))
            ELSE Commas(NatToChars(v.n))
      [] v.t = "bool" -> IF v.b THEN <<"1">> ELSE <<"0">>
      [] v.t = "float" -> v.lex

\* v <= 0
NotPositive(v) ==
    CASE v.t = "num" -> v.n <= 0
      [] v.t = "bool" -> ~v.b
      [] v.t = "float" -> ~FloatPositive(v.lex)

render_token_count(evt, ts, anchor) ==
    LET total == evt.total
        inp == get(total, Key.input_tokens, JNum(0))
        out == get(total, Key.output_tokens, JNum(0))
        rsn == get(total, Key.reasoning_output_tokens, JNum(0))
    IN  IF ~CommaFormattable(inp) THEN RenderRaise("TypeError")
        ELSE IF NotPositive(inp) THEN RenderNothing
        ELSE IF ~CommaFormattable(out) THEN RenderRaise(CommaFormatError(out))
        ELSE IF ~CommaFormattable(rsn) THEN RenderRaise(CommaFormatError(rsn))
        ELSE LET tok_str == <<"in:">> \o CommaFormat(inp) \o <<" out:">>
                            \o CommaFormat(out) \o <<" reasoning:">>
                            \o CommaFormat(rsn)
             IN  Rendered(
                   SidebarEntry("system", "{U+1F4CA} ", ts, anchor, tok_str),
                   <<"<div class=\"token-count\" id=\"", anchor,
                     "\"><div class=\"message-timestamp\">">> \o ts
                   \o <<"</div><span class=\"event-label\">{U+1F4CA} Tokens {U+2014} ">>
                   \o tok_str \o <<"</span></div>">>)

\* the keys of _EVENT_HANDLERS
EVENT_HANDLERS ==
    {"user_message", "reasoning", "agent_commentary", "assistant_text",
     "tool_call", "tool_output", "task_complete", "task_started",
     "turn_aborted", "thread_rolled_back", "token_count"}

\* handler(evt, ts, anchor, sidebar_items, message_blocks)
handler(evt, ts, anchor) ==
    CASE evt.type = "user_message" -> render_user_message(evt, ts, anchor)
      [] evt.type = "reasoning" -> render_reasoning(evt, ts, anchor)
      [] evt.type = "agent_commentary" -> render_agent_commentary(evt, ts, anchor)
      [] evt.type = "assistant_text" -> render_assistant_text(evt, ts, anchor)
      [] evt.type = "tool_call" -> render_tool_call(evt, ts, anchor)
      [] evt.type = "tool_output" -> render_tool_output(evt, ts, anchor)
      [] evt.type = "task_complete" -> render_task_complete(evt, ts, anchor)
      [] evt.type = "task_started" -> render_task_started(evt, ts, anchor)
      [] evt.type = "turn_aborted" -> render_turn_aborted(evt, ts, anchor)
      [] evt.type = "thread_rolled_back" -> render_thread_rolled_back(evt, ts, anchor)
      [] evt.type = "token_count" -> render_token_count(evt, ts, anchor)

(***************************************************************************)
(* html_builder.build_html                                                 *)
(***************************************************************************)
NoMeta ==
    [exc |-> "", session_id |-> JStr(Lit.unknown), model |-> EmptyStr,
     cli_version |-> EmptyStr, cwd |-> EmptyStr, branch |-> EmptyStr,
     commit |-> EmptyStr, session_ts |-> EmptyStr]

\* the reads of meta at the top of build_html
meta_fields(m) ==
    IF ~Truthy(m) THEN NoMeta
    ELSE IF m.t # "obj" THEN [NoMeta EXCEPT !.exc = "AttributeError"]
    ELSE LET git == get(m, Key.git, EmptyObj)
             hash == IF git.t = "obj" /\ Truthy(get(git, Key.commit_hash, EmptyStr))
                     THEN get(git, Key.commit_hash, EmptyStr) ELSE EmptyStr
         IN  IF git.t # "obj" THEN [NoMeta EXCEPT !.exc = "AttributeError"]
             ELSE IF ~Sliceable(hash) THEN [NoMeta EXCEPT !.exc = "TypeError"]
             ELSE [exc |-> "",
                   session_id |-> get(m, Key.id, JStr(Lit.unknown)),
                   model |-> get(m, Key.model_provider, EmptyStr),
                   cli_version |-> get(m, Key.cli_version, EmptyStr),
                   cwd |-> get(m, Key.cwd, EmptyStr),
                   branch |-> get(git, Key.branch, EmptyStr),
                   commit |-> Slice(hash, 12),
                   session_ts |-> get(m, Key.timestamp, EmptyStr)]

\* _EVENT_HANDLERS.get(etype) and the call of the handler, if there is one
render_event(evt, ts, anchor) ==
    IF evt.type \in EVENT_HANDLERS THEN handler(evt, ts, anchor)
    ELSE RenderNothing

\* append_fragments with the counter advanced only for an event that was
\* rendered
append_fragments_counts_rendered(k, sb, mb, evt, r) ==
    [exc |-> r.exc,
     site |-> IF r.exc = "" THEN "" ELSE "_render_" \o evt.type,
     msg_idx |-> IF r.sb = <<>> THEN k ELSE k + 1,
     sidebar_items |-> sb \o r.sb,
     message_blocks |-> mb \o r.mb]

\* the counter and the two lists after the handler of evt has returned (or
\* raised) r
append_fragments(k, sb, mb, evt, r) ==
    [exc |-> r.exc,
     site |-> IF r.exc = "" THEN "" ELSE "_render_" \o evt.type,
     msg_idx |-> k + 1,
     sidebar_items |-> sb \o r.sb,
     message_blocks |-> mb \o r.mb]

\* one iteration of the loop of build_html over the events: the exception
\* raised ("" for none) and where, the counter and the two lists after it
build_html_step(k, sb, mb, evt) ==
    LET f == format_ts(evt.ts)
    IN  IF f.exc # ""
        THEN [exc |-> f.exc, site |-> "format_ts", msg_idx |-> k,
              sidebar_items |-> sb, message_blocks |-> mb]
        ELSE append_fragments(k, sb, mb, evt,
                              render_event(evt, f.val, "msg-" \o ToString(k + 1)))

\* "\n".join(fragments)
RECURSIVE Join(_)
Join(fs) ==
    IF fs = <<>> THEN <<>>
    ELSE IF Len(fs) = 1 THEN fs[1]
    ELSE fs[1] \o <<"\n">> \o Join(Tail(fs))

\* escape(s) for a Python str s
escape_str(s) == escape(JStr(s))

\* _HTML_TEMPLATE.format(...): the exception raised ("" for none) and where,
\* and the document.  The literal text of the template between two fields
\* is shortened; the assets and the generation time are opaque.
document(h, sb, mb) ==
    IF ~Sliceable(h.session_id)
    THEN [exc |-> "TypeError", site |-> "build_html", html |-> <<>>]
    ELSE IF format_ts_full(h.session_ts).exc # ""
    THEN [exc |-> format_ts_full(h.session_ts).exc, site |-> "format_ts_full",
          html |-> <<>>]
    ELSE [exc |-> "", site |-> "",
          html |->
            <<"<!DOCTYPE html>...<title>Codex CLI Session {U+2014} ">>
            \o escape(Slice(h.session_id, 12))
            \o <<"</title><style>", "{style.css}",
                 "</style>...<div class=\"sidebar-meta\">">>
            \o escape(Slice(h.session_id, 12)) \o <<" {U+00B7} ">>
            \o escape_str(format_ts_full(h.session_ts).val)
            \o <<"</div>...<div class=\"tree-container\" id=\"tree-container\">">>
            \o Join(sb)
            \o <<"</div>...<span class=\"info-label\">Session ID</span><span class=\"info-value\">">>
            \o escape(h.session_id)
            \o <<"</span>...<span class=\"info-label\">Timestamp</span><span class=\"info-value\">">>
            \o escape_str(format_ts_full(h.session_ts).val)
            \o <<"</span>...<span class=\"info-label\">Model</span><span class=\"info-value\">">>
            \o escape(h.model)
            \o <<"</span>...<span class=\"info-label\">CLI Version</span><span class=\"info-value\">">>
            \o escape(h.cli_version)
            \o <<"</span>...<span class=\"info-label\">Working Dir</span><span class=\"info-value\">">>
            \o escape(h.cwd)
            \o <<"</span>...<span class=\"info-label\">Git Branch</span><span class=\"info-value\">">>
            \o escape(h.branch)
            \o (IF Truthy(h.commit) THEN <<" @ ">> \o escape(h.commit) ELSE <<>>)
            \o <<"</span>...<div id=\"messages\">">>
            \o Join(mb)
            \o <<"</div><div class=\"footer\">Codex CLI session transcript {U+00B7} Generated ",
                 "{generated}", "</div>...<script>", "{viewer.js}",
                 "</script></body></html>">>]

(***************************************************************************)
(* The records the extractor is run on: every shape of record the code     *)
(* tells apart, well-formed and malformed, as the reader can return them.  *)
(***************************************************************************)
Text ==
    [ts_iso |->
         <<"2", "0", "2", "4", "-", "0", "1", "-", "0", "1", "T", "0", "0",
         ":", "0", "0", ":", "0", "5", "Z">>,
     ts_raw |->
         <<"<", "b", ">", "n", "o", "t", "-", "a", "-", "t", "i", "m", "e",
         "s", "t", "a", "m", "p", "-", "a", "t", "-", "a", "l", "l">>,
     hello |->
         <<"H", "e", "l", "l", "o", " ", "*", "*", "w", "o", "r", "l", "d",
         "*", "*">>,
     html |-> <<"<", "b", ">", "&">>,
     two_lines |-> <<"a", "\n", "b">>,
     ok |-> <<"o", "k">>,
     final |-> <<"f", "i", "n", "a", "l">>,
     id |->
         <<"a", "b", "c", "1", "2", "3", "d", "e", "f", "4", "5", "6", "7",
         "<">>,
     model |-> <<"m">>,
     version |-> <<"0", ".", "1">>,
     cwd |-> <<"/", "w">>,
     branch |-> <<"m", "a", "i", "n">>,
     commit |->
         <<"0", "1", "2", "3", "4", "5", "6", "7", "8", "9", "a", "b", "c",
         "d", "e", "f">>,
     shell |-> <<"s", "h", "e", "l", "l">>,
     turn |-> <<"t", "1">>,
     call |-> <<"c", "1">>,
     interrupted |->
         <<"<", "i", "n", "t", "e", "r", "r", "u", "p", "t", "e", "d", ">">>,
     many |-> <<"<", "i", ">">>,
     args_cmd |->
         <<"{", "\"", "c", "m", "d", "\"", ":", "\"", "l", "s", " ", "-",
         "l", "a", "\"", "}">>,
     args_list |-> <<"[", "]">>,
     args_obj |-> <<"{", "\"", "a", "\"", ":", "1", "}">>,
     args_raw |-> <<"n", "o", "t", " ", "j", "s", "o", "n", " ", "<">>,
     args_cmd_num |-> <<"{", "\"", "c", "m", "d", "\"", ":", "5", "}">>,
     turn_context |->
         <<"t", "u", "r", "n", "_", "c", "o", "n", "t", "e", "x", "t">>,
     user |-> <<"u", "s", "e", "r">>,
     input_text |-> <<"i", "n", "p", "u", "t", "_", "t", "e", "x", "t">>,
     other |-> <<"o", "t", "h", "e", "r">>,
     A |-> <<"A">>,
     B |-> <<"B">>,
     x |-> <<"x">>]

KV(k, v) == [k |-> k, v |-> v]

Rec(ts, type, payload) ==
    JObj(<<KV(Key.timestamp, ts), KV(Key.type, JStr(type)), KV(Key.payload, payload)>>)

EventMsg(ts, sub, fields) ==
    Rec(ts, Lit.event_msg, JObj(<<KV(Key.type, JStr(sub))>> \o fields))

ResponseItem(ts, sub, fields) ==
    Rec(ts, Lit.response_item, JObj(<<KV(Key.type, JStr(sub))>> \o fields))

TokenCountRec(total) ==
    EventMsg(JStr(Text.ts_iso), Lit.token_count,
             <<KV(Key.info, JObj(<<KV(Key.total_token_usage, total)>>))>>)

Block(type, text) == JObj(<<KV(Key.type, JStr(type)), KV(Key.text, JStr(text))>>)

MetaRecords ==
    { Rec(JStr(Text.ts_iso), Lit.session_meta,
          JObj(<<KV(Key.id, JStr(Text.id)), KV(Key.model_provider, JStr(Text.model)),
                 KV(Key.cli_version, JStr(Text.version)), KV(Key.cwd, JStr(Text.cwd)),
                 KV(Key.git, JObj(<<KV(Key.branch, JStr(Text.branch)),
                                  KV(Key.commit_hash, JStr(Text.commit))>>)),
                 KV(Key.timestamp, JStr(Text.ts_iso))>>)),
      Rec(JStr(Text.ts_iso), Lit.session_meta,
          JObj(<<KV(Key.id, JStr(Text.x)), KV(Key.timestamp, JStr(Text.ts_raw))>>)),
      JObj(<<KV(Key.type, JStr(Lit.session_meta))>>),
      Rec(JStr(Text.ts_iso), Lit.session_meta, JStr(Text.x)) }

EventMsgRecords ==
    { EventMsg(JStr(Text.ts_iso), Lit.user_message, <<KV(Key.message, JStr(Text.hello))>>),
      EventMsg(JStr(Text.ts_raw), Lit.user_message, <<KV(Key.message, JStr(Text.html))>>),
      EventMsg(JNum(5), Lit.user_message, <<KV(Key.message, JStr(Text.ok))>>),
      EventMsg(JStr(Text.ts_iso), Lit.agent_message, <<KV(Key.message, JStr(Text.two_lines))>>),
      EventMsg(JStr(Text.ts_iso), Lit.agent_reasoning, <<KV(Key.text, JStr(Text.html))>>),
      EventMsg(EmptyStr, Lit.task_complete,
               <<KV(Key.last_agent_message, JStr(Text.ok)), KV(Key.turn_id, JStr(Text.turn))>>),
      EventMsg(JStr(Text.ts_iso), Lit.task_started,
               <<KV(Key.turn_id, JStr(Text.turn)), KV(Key.model_context_window, JNum(100))>>),
      EventMsg(JStr(Text.ts_iso), Lit.turn_aborted, <<KV(Key.reason, JStr(Text.interrupted))>>),
      EventMsg(JStr(Text.ts_iso), Lit.thread_rolled_back, <<KV(Key.num_turns, JNum(2))>>),
      EventMsg(JStr(Text.ts_iso), Lit.thread_rolled_back, <<KV(Key.num_turns, JStr(Text.many))>>),
      EventMsg(JStr(Text.ts_iso), Text.other, <<KV(Key.message, JStr(Text.ok))>>),
      Rec(JStr(Text.ts_iso), Lit.event_msg, JStr(Text.x)) }

TokenCountRecords ==
    { TokenCountRec(JObj(<<KV(Key.input_tokens, JNum(5)), KV(Key.output_tokens, JNum(0))>>)),
      TokenCountRec(JObj(<<KV(Key.input_tokens, JNum(0)), KV(Key.output_tokens, JNum(3))>>)),
      TokenCountRec(JObj(<<KV(Key.input_tokens, JNum(0)), KV(Key.output_tokens, JNum(0))>>)),
      TokenCountRec(JObj(<<KV(Key.input_tokens, JNum(-1))>>)),
      TokenCountRec(EmptyObj),
      TokenCountRec(JObj(<<KV(Key.input_tokens, JStr(Text.x))>>)),
      EventMsg(JStr(Text.ts_iso), Lit.token_count, <<>>),
      EventMsg(JStr(Text.ts_iso), Lit.token_count, <<KV(Key.info, JNull)>>) }

ResponseItemRecords ==
    { ResponseItem(JStr(Text.ts_iso), Lit.function_call,
                   <<KV(Key.name, JStr(Lit.exec_command)), KV(Key.arguments, JStr(Text.args_cmd)),
                     KV(Key.call_id, JStr(Text.call))>>),
      ResponseItem(JStr(Text.ts_iso), Lit.function_call,
                   <<KV(Key.name, JStr(Lit.exec_command)), KV(Key.arguments, JStr(Text.args_list))>>),
      ResponseItem(JStr(Text.ts_iso), Lit.function_call,
                   <<KV(Key.name, JStr(Lit.exec_command)), KV(Key.arguments, JStr(Text.args_cmd_num))>>),
      ResponseItem(JStr(Text.ts_iso), Lit.function_call,
                   <<KV(Key.name, JStr(Lit.exec_command)), KV(Key.arguments, JStr(Text.args_raw))>>),
      ResponseItem(JStr(Text.ts_iso), Lit.function_call,
                   <<KV(Key.name, JStr(Text.shell)), KV(Key.arguments, JStr(Text.args_obj))>>),
      ResponseItem(JStr(Text.ts_iso), Lit.function_call,
                   <<KV(Key.name, JStr(Text.shell)), KV(Key.arguments, JStr(Text.args_raw))>>),
      ResponseItem(JStr(Text.ts_iso), Lit.function_call_output,
                   <<KV(Key.call_id, JStr(Text.call)), KV(Key.output, JStr(Text.html))>>),
      ResponseItem(JStr(Text.ts_iso), Lit.message,
                   <<KV(Key.role, JStr(Lit.assistant)), KV(Key.phase, JStr(Text.final)),
                     KV(Key.content, JList(<<Block(Lit.output_text, Text.A),
                                           Block(Text.input_text, Text.x),
                                           Block(Lit.output_text, Text.B)>>))>>),
      ResponseItem(JStr(Text.ts_raw), Lit.message,
                   <<KV(Key.role, JStr(Lit.assistant)),
                     KV(Key.content, JList(<<Block(Lit.output_text, Text.html)>>))>>),
      ResponseItem(JStr(Text.ts_iso), Lit.message,
                   <<KV(Key.role, JStr(Lit.assistant)), KV(Key.content, EmptyList)>>),
      ResponseItem(JStr(Text.ts_iso), Lit.message,
                   <<KV(Key.role, JStr(Lit.assistant)),
                     KV(Key.content, JList(<<JStr(Text.x)>>))>>),
      ResponseItem(JStr(Text.ts_iso), Lit.message,
                   <<KV(Key.role, JStr(Text.user)),
                     KV(Key.content, JList(<<Block(Lit.output_text, Text.A)>>))>>),
      ResponseItem(JStr(Text.ts_iso), Lit.reasoning,
                   <<KV(Key.summary, JList(<<Block(Lit.summary_text, Text.A),
                                           Block(Lit.summary_text, Text.two_lines)>>))>>),
      ResponseItem(JStr(Text.ts_iso), Text.other, <<>>) }

OtherRecords ==
    { Rec(JStr(Text.ts_iso), Text.turn_context, JObj(<<KV(Key.cwd, JStr(Text.cwd))>>)),
      EmptyObj,
      JList(<<JNum(1)>>) }

Records ==
    MetaRecords \cup EventMsgRecords \cup TokenCountRecords
        \cup ResponseItemRecords \cup OtherRecords

Init ==
    /\ entries \in SeqsUpTo(Records, MaxEntries)
    /\ pc = "extract"
    /\ err = NoErr
    /\ lines = <<>>
    /\ idx = 0
    /\ meta = JNull
    /\ events = <<>>
    /\ hdr = NoMeta
    /\ sidebar_items = <<>>
    /\ message_blocks = <<>>
    /\ msg_idx = 0
    /\ html = <<>>
    /\ pos = 0

\* the loop of extract_conversation, one entry per step; an exception ends
\* the run
extract_conversation ==
    /\ pc = "extract"
    /\ idx < Len(entries)
    /\ LET r == extract_entry(meta, events, entries[idx + 1])
       IN  IF r.exc # ""
           THEN /\ pc' = "raised"
                /\ err' = [site |-> "extract_conversation", exc |-> r.exc]
                /\ UNCHANGED <<idx, meta, events>>
           ELSE /\ idx' = idx + 1
                /\ meta' = r.meta
                /\ events' = r.events
                /\ UNCHANGED <<pc, err>>
    /\ UNCHANGED <<lines, entries, hdr, sidebar_items, message_blocks, msg_idx, html, pos>>

\* return meta, events
extract_conversation_return ==
    /\ pc = "extract"
    /\ idx = Len(entries)
    /\ pc' = "build"
    /\ UNCHANGED <<err, lines, entries, idx, meta, events, hdr,
                   sidebar_items, message_blocks, msg_idx, html, pos>>

\* build_html up to the loop: the reads of meta, the empty lists, msg_idx = 0
build_html_begin ==
    /\ pc = "build"
    /\ IF meta_fields(meta).exc # ""
       THEN /\ pc' = "raised"
            /\ err' = [site |-> "build_html", exc |-> meta_fields(meta).exc]
            /\ UNCHANGED hdr
       ELSE /\ pc' = "render"
            /\ hdr' = meta_fields(meta)
            /\ UNCHANGED err
    /\ UNCHANGED <<lines, entries, idx, meta, events, sidebar_items,
                   message_blocks, msg_idx, html, pos>>

\* the state after one iteration that ended as r says
build_html_iteration(r) ==
    /\ msg_idx' = r.msg_idx
    /\ sidebar_items' = r.sidebar_items
    /\ message_blocks' = r.message_blocks
    /\ IF r.exc # ""
       THEN /\ pc' = "raised"
            /\ err' = [site |-> r.site, exc |-> r.exc]
            /\ UNCHANGED pos
       ELSE /\ pos' = pos + 1
            /\ UNCHANGED <<pc, err>>

\* the loop of build_html, one event per step
build_html_loop ==
    /\ pc = "render"
    /\ pos < Len(events)
    /\ build_html_iteration(build_html_step(msg_idx, sidebar_items,
                                            message_blocks, events[pos + 1]))
    /\ UNCHANGED <<lines, entries, idx, meta, events, hdr, html>>

\* build_html after the loop: the document is assembled and returned
build_html_return ==
    /\ pc = "render"
    /\ pos = Len(events)
    /\ LET d == document(hdr, sidebar_items, message_blocks)
       IN  IF d.exc # ""
           THEN /\ pc' = "raised"
                /\ err' = [site |-> d.site, exc |-> d.exc]
                /\ UNCHANGED html
           ELSE /\ pc' = "done"
                /\ html' = d.html
                /\ UNCHANGED err
    /\ UNCHANGED <<lines, entries, idx, meta, events, hdr, sidebar_items,
                   message_blocks, msg_idx, pos>>

Next ==
    \/ extract_conversation
    \/ extract_conversation_return
    \/ build_html_begin
    \/ build_html_loop
    \/ build_html_return

Spec == Init /\ [][Next]_vars

(***************************************************************************)
(* Properties of the extractor                                             *)
(***************************************************************************)
RecordTs(r) == get(r, Key.timestamp, EmptyStr)
RecordType(r) == get(r, Key.type, EmptyStr)
RecordPayload(r) == get(r, Key.payload, EmptyObj)

IsSessionMeta(r) == r.t = "obj" /\ RecordType(r) = JStr(Lit.session_meta)
NotSessionMeta(r) == ~IsSessionMeta(r)

\* the events one record produces on its own
EventsOfRecord(r) ==
    IF RecordType(r) = JStr(Lit.event_msg)
    THEN handle_event_msg(RecordPayload(r), RecordTs(r)).evs
    ELSE IF RecordType(r) = JStr(Lit.response_item)
    THEN handle_response_item(RecordPayload(r), RecordTs(r)).evs
    ELSE <<>>

RECURSIVE ConcatEvents(_)
ConcatEvents(rs) ==
    IF rs = <<>> THEN <<>>
    ELSE ConcatEvents(SubSeq(rs, 1, Len(rs) - 1)) \o EventsOfRecord(rs[Len(rs)])

Processed == SubSeq(entries, 1, idx)

SetMax(S) == CHOOSE x \in S : \A y \in S : y <= x

\* C1: during extraction and when it has returned, after any number of
\* records, meta is the payload of the last
\* session_meta record met so far (None when there was none), and the events
\* are those of the other records alone: a session_meta record adds no event.
C1_LastSessionMetaWinsAndEmitsNothing ==
    pc \in {"extract", "build"} =>
        LET S == {i \in 1..idx : IsSessionMeta(entries[i])}
        IN  /\ meta = IF S = {} THEN JNull
                      ELSE RecordPayload(entries[SetMax(S)])
            /\ events = ConcatEvents(SelectSeq(Processed, NotSessionMeta))
            /\ \A k \in 1..Len(events) : events[k].type # "session_meta"

\* two session_meta records with different payloads were extracted and the
\* second payload is the metadata returned
C1_Witness ==
    /\ pc = "build"
    /\ Len(entries) = 2
    /\ IsSessionMeta(entries[1])
    /\ IsSessionMeta(entries[2])
    /\ RecordPayload(entries[1]) # RecordPayload(entries[2])
    /\ meta = RecordPayload(entries[2])
    /\ events = <<>>

KnownMsgTypes ==
    {JStr(Lit.user_message), JStr(Lit.agent_message), JStr(Lit.agent_reasoning),
     JStr(Lit.task_complete), JStr(Lit.task_started), JStr(Lit.turn_aborted),
     JStr(Lit.token_count), JStr(Lit.thread_rolled_back)}

\* a record of a shape the extractor has no branch for
Unrecognized(r) ==
    \/ RecordType(r) \notin {JStr(Lit.event_msg), JStr(Lit.response_item)}
    \/ /\ RecordType(r) = JStr(Lit.event_msg)
       /\ get(RecordPayload(r), Key.type, EmptyStr) \notin KnownMsgTypes
    \/ /\ RecordType(r) = JStr(Lit.response_item)
       /\ get(RecordPayload(r), Key.type, EmptyStr) \notin
              {JStr(Lit.function_call), JStr(Lit.function_call_output), JStr(Lit.reasoning)}
       /\ ~ /\ get(RecordPayload(r), Key.type, EmptyStr) = JStr(Lit.message)
            /\ get(RecordPayload(r), Key.role, EmptyStr) = JStr(Lit.assistant)

\* C2: during extraction and when it has returned, the events are the
\* concatenation, in record order, of the events each
\* record extracted so far produces on its own; a record of an unrecognized
\* shape produces none, and every event carries its record's timestamp.
C2_EventsAreConcatenationInRecordOrder ==
    pc \in {"extract", "build"} =>
        /\ events = ConcatEvents(Processed)
        /\ \A i \in 1..idx :
              LET X == EventsOfRecord(entries[i])
              IN  /\ Unrecognized(entries[i]) => X = <<>>
                  /\ \A k \in 1..Len(X) : X[k].ts = RecordTs(entries[i])

\* two records that produce events, with different timestamps, then the
\* events of the first come before those of the second
C2_Witness ==
    /\ pc = "build"
    /\ Len(entries) = 2
    /\ EventsOfRecord(entries[1]) # <<>>
    /\ Len(EventsOfRecord(entries[2])) >= 2
    /\ RecordTs(entries[1]) # RecordTs(entries[2])
    /\ events[1].ts = RecordTs(entries[1])
    /\ events[Len(events)].ts = RecordTs(entries[2])

IsAssistantMessage(r) ==
    /\ r.t = "obj"
    /\ RecordType(r) = JStr(Lit.response_item)
    /\ RecordPayload(r).t = "obj"
    /\ get(RecordPayload(r), Key.type, EmptyStr) = JStr(Lit.message)
    /\ get(RecordPayload(r), Key.role, EmptyStr) = JStr(Lit.assistant)

IsOutputText(b) == b.t = "obj" /\ get(b, Key.type, JNull) = JStr(Lit.output_text)

OutputTextBlocks(r) ==
    LET content == get(RecordPayload(r), Key.content, EmptyList)
    IN  IF content.t = "list" THEN SelectSeq(content.items, IsOutputText)
        ELSE <<>>

\* C3: the step that extracts an assistant message appends one
\* assistant_text event per output_text block of its content, in block
\* order, each with its block's text, the message's phase and the record's
\* timestamp, and nothing for the other blocks.
C3_OneAssistantTextPerOutputTextBlock ==
    [][ (pc = "extract" /\ idx' = idx + 1 /\ IsAssistantMessage(entries[idx + 1]))
        => LET r == entries[idx + 1]
               blocks == OutputTextBlocks(r)
           IN  /\ Len(events') = Len(events) + Len(blocks)
               /\ SubSeq(events', 1, Len(events)) = events
               /\ \A k \in 1..Len(blocks) :
                     events'[Len(events) + k] =
                         [type |-> "assistant_text", ts |-> RecordTs(r),
                          text |-> get(blocks[k], Key.text, EmptyStr),
                          phase |-> get(RecordPayload(r), Key.phase, EmptyStr)]
      ]_vars

\* an assistant message with two output_text blocks around a block of
\* another type has been extracted into two events, in block order
C3_Witness ==
    /\ idx >= 1
    /\ pc # "raised"
    /\ IsAssistantMessage(entries[idx])
    /\ Len(OutputTextBlocks(entries[idx])) = 2
    /\ Len(get(RecordPayload(entries[idx]), Key.content, EmptyList).items) = 3
    /\ Len(events) >= 2
    /\ events[Len(events) - 1].text = JStr(Text.A)
    /\ events[Len(events)].text = JStr(Text.B)
    /\ events[Len(events)].phase = JStr(Text.final)

IsTokenCountRec(r) ==
    /\ r.t = "obj"
    /\ RecordType(r) = JStr(Lit.event_msg)
    /\ RecordPayload(r).t = "obj"
    /\ get(RecordPayload(r), Key.type, EmptyStr) = JStr(Lit.token_count)

\* payload.info.total_token_usage, an empty map when missing
TotalUsage(r) ==
    LET info == get(RecordPayload(r), Key.info, JNull)
    IN  IF info.t = "obj" THEN get(info, Key.total_token_usage, EmptyObj)
        ELSE EmptyObj

HasPositiveValue(total) ==
    /\ total.t = "obj"
    /\ \E i \in 1..Len(total.items) :
          total.items[i].v.t = "num" /\ total.items[i].v.n > 0

\* C4: the step that extracts a token_count record appends exactly one
\* token_count event carrying the total_token_usage map as it is when the
\* map has a strictly positive value, and appends nothing otherwise.
C4_TokenCountOnlyWhenSomeValuePositive ==
    [][ (pc = "extract" /\ idx' = idx + 1 /\ IsTokenCountRec(entries[idx + 1]))
        => LET r == entries[idx + 1]
           IN  events' = IF HasPositiveValue(TotalUsage(r))
                         THEN Append(events, [type |-> "token_count",
                                              ts |-> RecordTs(r),
                                              total |-> TotalUsage(r)])
                         ELSE events
      ]_vars

\* a token_count record with a positive value has produced its event, after
\* an all-zero one that produced none
C4_Witness ==
    /\ idx = 2
    /\ IsTokenCountRec(entries[1])
    /\ TotalUsage(entries[1]) # EmptyObj
    /\ ~HasPositiveValue(TotalUsage(entries[1]))
    /\ IsTokenCountRec(entries[2])
    /\ HasPositiveValue(TotalUsage(entries[2]))
    /\ events = <<[type |-> "token_count", ts |-> RecordTs(entries[2]),
                   total |-> TotalUsage(entries[2])]>>

\* C6: extract_conversation raises for no sequence of decoded JSON values.
C6_ExtractNeverRaises == err.site # "extract_conversation"

(***************************************************************************)
(* Properties of the renderer                                              *)
(***************************************************************************)
\* the anchor of a sidebar entry or of a detail block
AnchorOf(fragment) == fragment[2]

Anchor(k) == "msg-" \o ToString(k)

AnchorNum(fragment) ==
    CHOOSE k \in 1..Len(events) : AnchorOf(fragment) = Anchor(k)

\* the anchors of a list of fragments increase strictly
AnchorsIncrease(fs) ==
    \A i, j \in 1..Len(fs) : i < j => AnchorNum(fs[i]) < AnchorNum(fs[j])

\* C5: an iteration of the loop that does not raise gives the k-th event
\* the anchor msg-k, whether or not anything is rendered for it: the
\* counter goes from k - 1 to k, what is appended to the two lists is what
\* the handler of the event makes under the anchor msg-k (nothing if it
\* makes nothing), every fragment appended carries msg-k, and the anchors in
\* each list still increase strictly.
C5_AnchorsFollowEventPositions ==
    [][(pc = "render" /\ pos < Len(events) /\ pc' # "raised") =>
          LET k == pos + 1
              r == render_event(events[k], format_ts(events[k].ts).val,
                                Anchor(k))
          IN  /\ msg_idx = k - 1
              /\ msg_idx' = k
              /\ pos' = k
              /\ sidebar_items' = sidebar_items \o r.sb
              /\ message_blocks' = message_blocks \o r.mb
              /\ \A i \in 1..Len(r.sb) : AnchorOf(r.sb[i]) = Anchor(k)
              /\ \A i \in 1..Len(r.mb) : AnchorOf(r.mb[i]) = Anchor(k)
              /\ AnchorsIncrease(sidebar_items')
              /\ AnchorsIncrease(message_blocks')]_vars

\* three events were rendered to the end; the first, a token_count without
\* input tokens, left nothing, and the other two carry msg-2 and msg-3
C5_Witness ==
    /\ pc = "done"
    /\ Len(events) = 3
    /\ events[1].type = "token_count"
    /\ msg_idx = 3
    /\ Len(sidebar_items) = 2
    /\ AnchorOf(sidebar_items[1]) = "msg-2"
    /\ AnchorOf(sidebar_items[2]) = "msg-3"
    /\ AnchorOf(message_blocks[1]) = "msg-2"
    /\ AnchorOf(message_blocks[2]) = "msg-3"

Unparseable(v) == v.t = "str" /\ ~fromisoformat(replace_Z(v.s)).ok

\* C8: formatting the timestamp of an event or of the session metadata
\* never raises, and for a timestamp that does not parse both formatters
\* return its first 19 characters.
C8_TimestampFormattingNeverRaisesAndFallsBackTo19 ==
    /\ err.site \notin {"format_ts", "format_ts_full"}
    /\ \A k \in 1..Len(events) :
          /\ format_ts(events[k].ts).exc = ""
          /\ Unparseable(events[k].ts)
                => format_ts(events[k].ts).val = Take(events[k].ts.s, 19)
    /\ pc \in {"render", "done"} =>
          /\ format_ts_full(hdr.session_ts).exc = ""
          /\ Unparseable(hdr.session_ts)
                => format_ts_full(hdr.session_ts).val = Take(hdr.session_ts.s, 19)

IsToolCall(e) == e.type = "tool_call" /\ e.arguments.t = "str"

\* the detail the claim describes for a tool call
ToolDetailAsClaimed(e) ==
    LET parsed == json_loads(e.arguments.s)
    IN  IF ~parsed.ok
        THEN <<"<pre>">> \o html_escape(e.arguments.s) \o <<"</pre>">>
        ELSE IF e.name = JStr(Lit.exec_command)
        THEN <<"<span class=\"tool-command\">$ ">>
             \o (IF parsed.val.t = "obj" THEN escape(get(parsed.val, Key.cmd, EmptyStr))
                 ELSE <<>>)
             \o <<"</span>">>
        ELSE <<"<pre>">> \o html_escape(json_dumps(parsed.val, TRUE, 0)) \o <<"</pre>">>

\* s holds part as a contiguous run
Contains(s, part) == Find(s, part, 1) # 0

\* C9: rendering a tool call whose arguments are a string never raises, and
\* its detail block shows the command line, the pretty-printed JSON or the
\* raw string according to the three cases.
C9_ToolCallRenderingNeverRaises ==
    /\ err.site # "_render_tool_call"
    /\ \A k \in 1..pos :
          IsToolCall(events[k]) =>
             \E i \in 1..Len(message_blocks) :
                /\ AnchorOf(message_blocks[i]) = Anchor(k)
                /\ Contains(message_blocks[i], ToolDetailAsClaimed(events[k]))

RECURSIVE Flatten(_)
Flatten(fs) == IF fs = <<>> THEN <<>> ELSE fs[1] \o Flatten(Tail(fs))

\* a character of the log that HTML gives a meaning stands in s as it is
HasRawSpecial(s) == \E i \in 1..Len(s) : s[i] \in HtmlSpecial

\* C10: no fragment and no part of the document holds a raw HTML special
\* character that came from the log.
C10_AllLogTextIsEscaped ==
    /\ ~HasRawSpecial(Flatten(sidebar_items))
    /\ ~HasRawSpecial(Flatten(message_blocks))
    /\ ~HasRawSpecial(html)

\* the kind of e has a registered renderer
Registered(e) == e.type \in EVENT_HANDLERS

\* a token_count event whose input_tokens is not positive: its renderer
\* returns before it appends anything
Suppressed(e) ==
    /\ e.type = "token_count"
    /\ NotPositive(get(e.total, Key.input_tokens, JNum(0)))

\* the anchors of the first n events that satisfy the test, in event order
RECURSIVE AnchorsOfRegistered(_)
AnchorsOfRegistered(n) ==
    IF n = 0 THEN <<>>
    ELSE AnchorsOfRegistered(n - 1)
         \o (IF Registered(events[n]) THEN <<Anchor(n)>> ELSE <<>>)

RECURSIVE AnchorsOfRendered(_)
AnchorsOfRendered(n) ==
    IF n = 0 THEN <<>>
    ELSE AnchorsOfRendered(n - 1)
         \o (IF Registered(events[n]) /\ ~Suppressed(events[n])
             THEN <<Anchor(n)>> ELSE <<>>)

AnchorsIn(fs) == [i \in 1..Len(fs) |-> AnchorOf(fs[i])]

\* C11 as stated: after any number of events rendered, the sidebar list and
\* the detail list each hold one fragment per event of a registered kind,
\* in event order, the i-th of each carrying the anchor of the i-th such
\* event.
C11_EveryRegisteredEventRendersOnce ==
    /\ AnchorsIn(sidebar_items) = AnchorsOfRegistered(pos)
    /\ AnchorsIn(message_blocks) = AnchorsOfRegistered(pos)

\* C11, amended: after any number of events rendered, the sidebar list and
\* the detail list each hold one fragment per event of a registered kind
\* other than a token_count event without positive input_tokens, in event
\* order, the i-th of each carrying the anchor of the i-th such event; so
\* the two lists have the same length and pair up by anchor.
C11_EveryRenderedEventRendersOnce ==
    /\ AnchorsIn(sidebar_items) = AnchorsOfRendered(pos)
    /\ AnchorsIn(message_blocks) = AnchorsOfRendered(pos)
    /\ Len(sidebar_items) = Len(message_blocks)

\* a token_count event without input tokens and then an event that renders
\* have both been consumed: one sidebar entry and one detail block, both
\* carrying msg-2
C11_Witness ==
    /\ pc = "done"
    /\ Len(events) = 2
    /\ Suppressed(events[1])
    /\ Registered(events[2])
    /\ ~Suppressed(events[2])
    /\ AnchorsIn(sidebar_items) = <<"msg-2">>
    /\ AnchorsIn(message_blocks) = <<"msg-2">>

\* the kinds of event whose sidebar entry previews a text of the event
PreviewKinds ==
    {"user_message", "reasoning", "agent_commentary", "assistant_text",
     "tool_call"}

\* the character budget of the preview of a kind
Budget(kind) == IF kind \in {"user_message", "tool_call"} THEN 80 ELSE 60

\* the text a tool call previews: the cmd field for the shell tool, the
\* compact JSON for another tool, the raw string when it does not decode
ToolPreviewSource(e, parsed) ==
    IF ~parsed.ok THEN e.arguments.s
    ELSE IF e.name = JStr(Lit.exec_command)
    THEN get(parsed.val, Key.cmd, EmptyStr).s
    ELSE json_dumps(parsed.val, FALSE, 0)

\* the text of e that its sidebar entry previews
PreviewSource(e) ==
    IF e.type = "tool_call"
    THEN ToolPreviewSource(e, json_loads(e.arguments.s))
    ELSE e.text.s

\* the event has a text to preview: a str text, or str arguments whose cmd
\* field, for the shell tool, is a str
HasPreviewText(e, parsed) ==
    IF e.type = "tool_call"
    THEN /\ e.arguments.t = "str"
         /\ (parsed.ok /\ e.name = JStr(Lit.exec_command))
               => /\ parsed.val.t = "obj"
                  /\ get(parsed.val, Key.cmd, EmptyStr).t = "str"
    ELSE e.text.t = "str"

Previewed(e) ==
    /\ e.type \in PreviewKinds
    /\ HasPreviewText(e, IF e.type = "tool_call" /\ e.arguments.t = "str"
                         THEN json_loads(e.arguments.s) ELSE ParseFail)

\* the preview as the claim describes it: truncated to the budget, every
\* newline replaced by a space, escaped
ClaimedPreview(e) ==
    html_escape(ReplaceChar(Take(PreviewSource(e), Budget(e.type)), "\n", " "))

\* the full text as the detail block shows it
FullText(e) ==
    CASE e.type = "reasoning" -> escape(e.text)
      [] e.type = "tool_call" -> ToolDetailAsClaimed(e)
      [] OTHER -> render_markdown(e.text)

\* the sidebar entry f ends with the preview c and the closing markup
EndsWithPreview(f, c) ==
    /\ Len(f) > Len(c) + 1
    /\ SubSeq(f, Len(f) - Len(c), Len(f) - 1) = c
    /\ f[Len(f)] = "</span></a>"
    /\ f[Len(f) - Len(c) - 1] \notin HtmlSpecial \cup {"\n", " "}

\* C12: for every rendered event that previews a text, the sidebar entry
\* ends with that text truncated to the budget of its kind with every
\* newline replaced by a space, and the detail block of the same anchor
\* holds the full text.
C12_PreviewsAreTruncatedAndOnOneLine ==
    \A i \in 1..Len(sidebar_items) :
       LET e == events[AnchorNum(sidebar_items[i])]
       IN  Previewed(e) =>
              /\ EndsWithPreview(sidebar_items[i], ClaimedPreview(e))
              /\ \E j \in 1..Len(message_blocks) :
                    /\ AnchorOf(message_blocks[j]) = AnchorOf(sidebar_items[i])
                    /\ Contains(message_blocks[j], FullText(e))

ParsesAsJson(l) == strip(l) # <<>> /\ json_loads(strip(l)).ok

====
